---- MODULE Spec2Model ----
(***************************************************************************)
(* Roster resolution and attendance metrics of Dutch-Trails-QR.            *)
(*                                                                         *)
(* Instants are whole seconds since midnight UTC of day 0; a calendar date *)
(* is a day number.  A JavaScript number of minutes may be fractional      *)
(* (ms / 60000 without Math.floor), so every "minutes" value is held in    *)
(* sixtieths of a minute: Minutes(5) is the value 5, Minutes(1) + 40 is    *)
(* 1 minute 40 seconds.  A wall-clock string "HH:MM" is the sequence of    *)
(* its colon-separated numbers, <<HH, MM>>.                                *)
(***************************************************************************)
EXTENDS Integers, Sequences, FiniteSets, TLC

VARIABLES
  pc,          \* which specification is running and where it stands
  tzOffset,    \* offset of local time from UTC, in seconds
  rosters,     \* the rosters table: a set of roster rows
  attendance,  \* the attendance row under consideration
  now,         \* the wall clock read by new Date()
  calls,       \* the roster operations in progress, with their locals
  out          \* result of the last call

vars == <<pc, tzOffset, rosters, attendance, now, calls, out>>

\* null/undefined: of a number or timestamp (all of which are >= 0 here),
\* of a time string, of a roster row, of a shift entry's time_slot
NULL == 0 - 1
NoTime == <<>>
NoRoster == [id |-> NULL]
NoSlot == [start_time |-> NoTime, end_time |-> NoTime]

\* ---------------------------------------------------------------- bounds
MaxSpanMinutes == 32     \* check-ins range over this many minutes
MaxSlots == 9            \* hourly instants available to a day's four timestamps
MaxEventSlots == 5       \* hourly instants at which an event may be stamped
MaxRosters == 3          \* rows the rosters table may hold

\* ------------------------------------------------------- program constants
SecondsPerMinute == 60
SecondsPerDay == 24 * 3600

\* ------------------------------------------------------------- arithmetic
Max(a, b) == IF a >= b THEN a ELSE b

\* the number NaN, as Number("ab") and the time value of an Invalid Date
\* give it; it lies below every difference of two instants
NaN == 0 - 1000 * SecondsPerDay

\* a - b, x > 0 and Math.max(0, x) of JavaScript numbers
Minus(a, b) == IF a = NaN \/ b = NaN THEN NaN ELSE a - b
Positive(x) == x # NaN /\ x > 0
MathMax0(x) == IF x = NaN THEN NaN ELSE Max(0, x)

Minutes(k) == k * SecondsPerMinute

\* Math.floor(x) of a value held in sixtieths
MathFloor(x) == (x \div SecondsPerMinute) * SecondsPerMinute

\* Math.round(x): nearest whole number, halves go up
MathRound(x) == ((x + 30) \div SecondsPerMinute) * SecondsPerMinute

\* truncation toward zero, as date-fns differenceInMinutes does
Trunc(x) == IF x >= 0 THEN MathFloor(x) ELSE 0 - MathFloor(0 - x)

\* ------------------------------------------------------------ date and time
\* Date.prototype.toISOString().split('T')[0]: the UTC calendar date
ISODate(t) == t \div SecondsPerDay

\* the calendar date of an instant on the local wall clock
LocalDate(t, tz) == (t + tz) \div SecondsPerDay

\* seconds since midnight of the parts of "HH:MM" or "HH:MM:SS"
TimeOfDay(st) ==
  st[1] * 3600 + st[2] * SecondsPerMinute + (IF Len(st) >= 3 THEN st[3] ELSE 0)

\* new Date(`${date}T${time}`): a date-time without offset is local time
ParseLocal(date, st, tz) == date * SecondsPerDay + TimeOfDay(st) - tz

\* d = new Date(t); d.setHours(h, m, 0, 0): h:m on t's local calendar date
SetHours(t, h, m, tz) ==
  LocalDate(t, tz) * SecondsPerDay + h * 3600 + m * SecondsPerMinute - tz

\* differenceInMinutes(a, b) of date-fns
differenceInMinutes(a, b) == IF a = NaN \/ b = NaN THEN NaN ELSE Trunc(a - b)

\* new Date(`${date}T${st}`).getTime(): NaN unless st reads HH:MM[:SS]
DateTimeOf(date, st, tz) ==
  IF Len(st) >= 2 /\ \A i \in 1..Len(st) : st[i] # NaN
  THEN ParseLocal(date, st, tz)
  ELSE NaN

\* [h, m] = st.split(':').map(Number); d = new Date(t); d.setHours(h, m, 0, 0);
\* d.getTime(): NaN when h or m is NaN or undefined
SetHoursOf(t, st, tz) ==
  IF Len(st) >= 2 /\ st[1] # NaN /\ st[2] # NaN
  THEN SetHours(t, st[1], st[2], tz)
  ELSE NaN

\* ------------------------------------------------------------------ rosters
\* the columns getEmployeeRosterForDate selects: grace_period is not one
SelectRosterColumns(r) == [r EXCEPT !.grace_period = NULL]

\* rows with employee_id = employeeId, is_active, start_date <= date <= end_date
ActiveRostersOn(rs, employeeId, date) ==
  {r \in rs : /\ r.employee_id = employeeId
              /\ r.is_active = TRUE
              /\ r.start_date <= date
              /\ r.end_date >= date}

\* .order('created_at', { ascending: false }).limit(1)
LatestCreated(S) == CHOOSE r \in S : \A q \in S : q.created_at <= r.created_at

getEmployeeRosterForDate(rs, employeeId, date) ==
  LET data == ActiveRostersOn(rs, employeeId, date)
  IN IF data = {} THEN NoRoster ELSE SelectRosterColumns(LatestCreated(data))

\* RosterService.getRosterById
getRosterById(rs, rosterId) ==
  IF \E r \in rs : r.id = rosterId
  THEN CHOOSE r \in rs : r.id = rosterId
  ELSE NoRoster

DefaultShift(roster, date) ==
  [date |-> date, shift |-> "regular",
   time_slot |-> [start_time |-> roster.start_time, end_time |-> roster.end_time]]

\* a shift_pattern that is not an array: an object, as JSON may hold
MalformedPattern == <<[malformed |-> TRUE]>>

\* what a call yields when it throws a TypeError
TypeErrorShift == [date |-> NULL, shift |-> "TypeError", time_slot |-> NoSlot]

\* shift_pattern null or empty is the empty sequence; find() takes the first
\* entry whose date matches, and is not a function of a pattern that is not
\* an array
getShiftForDate(roster, date) ==
  LET pattern == roster.shift_pattern
      hits == {i \in 1..Len(pattern) : pattern[i].date = date}
  IN IF pattern = MalformedPattern THEN TypeErrorShift
     ELSE IF Len(pattern) = 0 THEN DefaultShift(roster, date)
     ELSE IF hits # {} THEN pattern[CHOOSE i \in hits : \A j \in hits : i <= j]
     ELSE DefaultShift(roster, date)

\* new Date(date).getDay(): a date-only string is midnight UTC, the weekday
\* is read on the local clock
DayOfWeek(date, tz) == LocalDate(date * SecondsPerDay, tz) % 7

\* PresentEmployeeReport.getEffectiveRosterStart(record), with record.roster;
\* the '-' it shows for no start time is NoTime
getEffectiveRosterStart(record, roster, tz) ==
  IF roster = NoRoster THEN NoTime
  ELSE LET pattern == roster.shift_pattern
           dayOfWeek == DayOfWeek(record.date, tz)
           hits == IF pattern = MalformedPattern THEN {}
                   ELSE {i \in 1..Len(pattern) : pattern[i].day = dayOfWeek}
           shift == pattern[CHOOSE i \in hits : \A j \in hits : i <= j]
       IN IF hits # {} /\ shift.time_slot.start_time # NoTime
          THEN shift.time_slot.start_time
          ELSE roster.start_time

\* ----------------------------------------------------- lateness calculators
DefaultLateness ==
  [isLate |-> FALSE, lateMinutes |-> 0, lateHours |-> 0, lateDisplay |-> <<0, 0>>]

\* lateCalculation.ts: calculateLateness(attendance, roster)
calculateLateness(att, roster, tz) ==
  IF att.first_check_in_time = NULL \/ roster.start_time = NoTime
  THEN DefaultLateness
  ELSE LET checkInTime == att.first_check_in_time
           checkInDate == ISODate(checkInTime)
           rosterStartDateTime == DateTimeOf(checkInDate, roster.start_time, tz)
           timeDifference == Minus(checkInTime, rosterStartDateTime)
           lateMinutes == MathFloor(timeDifference)
           lateHours == (lateMinutes \div SecondsPerMinute) \div 60
           remainingMinutes == (lateMinutes \div SecondsPerMinute) % 60
       IN IF Positive(timeDifference)
          THEN [isLate |-> TRUE, lateMinutes |-> lateMinutes,
                lateHours |-> lateHours,
                lateDisplay |-> <<lateHours, remainingMinutes>>]
          ELSE DefaultLateness

\* lateCalculation.ts: isEmployeeLate(checkInTime, rosterStartTime, gracePeriod,
\* date), date being optional
isEmployeeLate(checkInTime, rosterStartTime, gracePeriod, date, tz) ==
  LET checkIn == checkInTime
      checkInDate == IF date # NULL THEN date ELSE ISODate(checkIn)
      rosterStart == DateTimeOf(checkInDate, rosterStartTime, tz)
      timeDifference == Minus(checkIn, rosterStart)
      gracePeriodMs == Minutes(gracePeriod)
  IN timeDifference # NaN /\ timeDifference > gracePeriodMs

\* the safe defaults calculateLateDuration returns from its catch block
CaughtLateDuration == [isLate |-> FALSE, lateMinutes |-> 0, gracePeriodUsed |-> 0]

\* calculateLateDuration without Math.max(0, ...)
calculateLateDuration_noMax(checkInTime, roster, tz) ==
  IF roster = NoRoster \/ roster.start_time = NoTime THEN CaughtLateDuration
  ELSE LET rosterStart == SetHoursOf(checkInTime, roster.start_time, tz)
           lateMinutes == differenceInMinutes(checkInTime, rosterStart)
       IN [isLate |-> Positive(lateMinutes), lateMinutes |-> lateMinutes,
           gracePeriodUsed |-> 0]

\* lateDurationUtils.ts: calculateLateDuration(checkInTime, roster); reading
\* start_time of no roster, or splitting no start_time, throws into the catch
calculateLateDuration(checkInTime, roster, tz) ==
  IF roster = NoRoster \/ roster.start_time = NoTime THEN CaughtLateDuration
  ELSE LET actualCheckIn == checkInTime
           rosterStart == SetHoursOf(actualCheckIn, roster.start_time, tz)
           minutesDifference == differenceInMinutes(actualCheckIn, rosterStart)
           lateMinutes == MathMax0(minutesDifference)
       IN [isLate |-> Positive(lateMinutes), lateMinutes |-> lateMinutes,
           gracePeriodUsed |-> 0]

\* rosterUtils: calculateRosterBasedLateness(employeeId, checkInTime, date)
calculateRosterBasedLateness(rs, employeeId, checkInTime, date, tz) ==
  LET roster == getEmployeeRosterForDate(rs, employeeId, date)
  IN IF roster = NoRoster THEN 0
     ELSE LET shift == getShiftForDate(roster, date)
              rosterStartTime ==
                IF shift.time_slot.start_time # NoTime
                THEN shift.time_slot.start_time
                ELSE roster.start_time
          IN IF shift.shift = "TypeError" THEN 0
             ELSE IF shift.shift = "off" THEN 0
             ELSE IF rosterStartTime = NoTime THEN 0
             ELSE LET rosterStart == DateTimeOf(date, rosterStartTime, tz)
                      timeDifference == Minus(checkInTime, rosterStart)
                  IN IF Positive(timeDifference) THEN MathFloor(timeDifference) ELSE 0

\* calculateLateDuration measuring against 09:00 when the roster is not found
recreationCalculateLateDuration_defaultStart(rs, checkInTime, rosterId, tz) ==
  LET roster == getRosterById(rs, rosterId)
  IN IF roster = NoRoster
     THEN MathMax0(Minus(checkInTime, SetHoursOf(checkInTime, <<9, 0>>, tz)))
     ELSE IF roster.start_time = NoTime THEN 0
     ELSE LET rosterStart == SetHoursOf(checkInTime, roster.start_time, tz)
          IN MathMax0(Minus(checkInTime, rosterStart))

\* AttendanceDataRecreationService.calculateLateDuration(checkInTime, rosterId)
recreationCalculateLateDuration(rs, checkInTime, rosterId, tz) ==
  LET roster == getRosterById(rs, rosterId)
  IN IF roster = NoRoster THEN 0
     ELSE IF roster.start_time = NoTime THEN 0
     ELSE LET rosterStart == SetHoursOf(checkInTime, roster.start_time, tz)
          IN MathMax0(Minus(checkInTime, rosterStart))

\* the late minutes RosterStartEditor.handleSave recomputes
editorLateMinutes(checkInTime, rosterStart, tz) ==
  Max(0, MathRound(checkInTime - SetHours(checkInTime, rosterStart[1], rosterStart[2], tz)))

\* the late minutes EditRosterStartDialog.handleSave recomputes
dialogLateMinutes(checkInTime, rosterStart, tz) ==
  Max(0, checkInTime - SetHours(checkInTime, rosterStart[1], rosterStart[2], tz))

\* COALESCE(x, 0)
Coalesce0(x) == IF x = NULL THEN 0 ELSE x

\* DATE_TRUNC('day', t) in the session time zone
DateTruncDay(t, tz) == LocalDate(t, tz) * SecondsPerDay - tz

\* attendance_display.minutes_late
viewMinutesLate(att, r, tz) ==
  IF att.first_check_in_time # NULL /\ r # NoRoster /\ r.start_time # NoTime
  THEN Max(0, (att.first_check_in_time
                 - (DateTruncDay(att.first_check_in_time, tz) + TimeOfDay(r.start_time)))
              - Minutes(Coalesce0(r.grace_period)))
  ELSE 0

\* attendance_display.early_departure_minutes
viewEarlyDepartureMinutes(att, r, tz) ==
  IF att.first_check_out_time # NULL /\ r # NoRoster /\ r.end_time # NoTime
  THEN Max(0, ((DateTruncDay(att.first_check_out_time, tz) + TimeOfDay(r.end_time))
                 - att.first_check_out_time)
              - Minutes(Coalesce0(r.early_departure_threshold)))
  ELSE 0

\* ------------------------------------------------------------------- inputs
Employees == {"e1", "e2"}

\* UTC, and Asia/Colombo (+05:30)
TZOffsets == {0, 5 * 3600 + 30 * SecondsPerMinute}

\* the calendar date on which the modelled events fall
Today == 3

\* the instant at which the local wall clock shows h:m:sec on date d
At(d, h, m, sec, tz) == d * SecondsPerDay + h * 3600 + m * SecondsPerMinute + sec - tz

CheckInInstants(tz) ==
  {At(Today, 7, 50 + m, sec, tz) : m \in 0..MaxSpanMinutes, sec \in {0, 40}}

CheckOutInstants(tz) ==
  {NULL} \cup {At(Today, 16, 20 + m, 0, tz) : m \in {0, 25, 40, 50}}

StartTimes == {<<8, 0>>, <<8, 0, 0>>, <<7, 55>>}
GracePeriods == {NULL, 0, 15}
EarlyDepartureThresholds == {NULL, 0, 30}

NewAttendance(employeeId, date) ==
  [id |-> 1, employee_id |-> employeeId, date |-> date, roster_id |-> NULL,
   first_check_in_time |-> NULL, first_check_out_time |-> NULL,
   second_check_in_time |-> NULL, second_check_out_time |-> NULL,
   status |-> "ABSENT", minutes_late |-> NULL,
   working_duration_minutes |-> NULL, break_duration_minutes |-> NULL]

NewRoster(id, employeeId, from, until, st) ==
  [id |-> id, employee_id |-> employeeId, start_date |-> from, end_date |-> until,
   start_time |-> st, end_time |-> <<17, 0>>, break_duration |-> 60,
   grace_period |-> NULL, early_departure_threshold |-> NULL,
   shift_pattern |-> <<>>, is_active |-> TRUE, status |-> "active",
   created_at |-> id]

NoOut == [fn |-> "none"]
NoCalls == <<>>

\* ------------------------------------------------- the lateness calculators
\* One attendance row with its first check-in (and perhaps a first
\* check-out) on Today, and the roster it references.
InitLate ==
  /\ pc = "late"
  /\ tzOffset \in TZOffsets
  /\ \E st \in StartTimes, g \in GracePeriods, th \in EarlyDepartureThresholds :
       rosters = {[NewRoster(1, "e1", Today - 1, Today + 1, st)
                     EXCEPT !.grace_period = g, !.early_departure_threshold = th]}
  /\ \E ci \in CheckInInstants(tzOffset), co \in CheckOutInstants(tzOffset) :
       attendance = [NewAttendance("e1", Today)
                       EXCEPT !.first_check_in_time = ci,
                              !.first_check_out_time = co,
                              !.roster_id = 1,
                              !.status = IF co = NULL THEN "FIRST_SESSION_ACTIVE"
                                         ELSE "FIRST_CHECK_OUT"]
  /\ now = At(Today, 18, 0, 0, tzOffset)
  /\ calls = NoCalls
  /\ out = NoOut

TheRoster == getRosterById(rosters, attendance.roster_id)

\* a calculator may be called, and where the call leaves the specification
\* the record has its first check-in, which the functions that take the
\* check-in instant as an argument are called with
CheckedIn == attendance.first_check_in_time # NULL

Calculating == pc \in {"late", "edge"}
Done == IF pc = "late" THEN "lateDone" ELSE "edgeDone"

CalculateLateness ==
  /\ Calculating
  /\ TheRoster # NoRoster
  /\ LET res == calculateLateness(attendance, TheRoster, tzOffset)
     IN out' = [fn |-> "calculateLateness", isLate |-> res.isLate,
                lateMinutes |-> res.lateMinutes, lateHours |-> res.lateHours,
                lateDisplay |-> res.lateDisplay]
  /\ pc' = Done
  /\ UNCHANGED <<tzOffset, rosters, attendance, now, calls>>

CalculateLateDuration ==
  /\ Calculating
  /\ CheckedIn
  /\ LET res == calculateLateDuration(attendance.first_check_in_time, TheRoster, tzOffset)
     IN out' = [fn |-> "calculateLateDuration", isLate |-> res.isLate,
                lateMinutes |-> res.lateMinutes]
  /\ pc' = Done
  /\ UNCHANGED <<tzOffset, rosters, attendance, now, calls>>

CalculateRosterBasedLateness ==
  /\ Calculating
  /\ CheckedIn
  /\ out' = [fn |-> "calculateRosterBasedLateness",
             lateMinutes |-> calculateRosterBasedLateness(rosters,
                               attendance.employee_id, attendance.first_check_in_time,
                               attendance.date, tzOffset)]
  /\ pc' = Done
  /\ UNCHANGED <<tzOffset, rosters, attendance, now, calls>>

RecreationCalculateLateDuration ==
  /\ Calculating
  /\ CheckedIn
  /\ out' = [fn |-> "AttendanceDataRecreationService.calculateLateDuration",
             lateMinutes |-> recreationCalculateLateDuration(rosters,
                               attendance.first_check_in_time, attendance.roster_id,
                               tzOffset)]
  /\ pc' = Done
  /\ UNCHANGED <<tzOffset, rosters, attendance, now, calls>>

AttendanceDisplay ==
  /\ pc = "late"
  /\ out' = [fn |-> "attendance_display",
             lateMinutes |-> viewMinutesLate(attendance, TheRoster, tzOffset),
             earlyDepartureMinutes |->
               viewEarlyDepartureMinutes(attendance, TheRoster, tzOffset)]
  /\ pc' = "lateDone"
  /\ UNCHANGED <<tzOffset, rosters, attendance, now, calls>>

\* the recalculation inside RosterStartEditor.handleSave, for the start time
\* the roster has
EditorRecalculation ==
  /\ pc = "late"
  /\ out' = [fn |-> "RosterStartEditor.handleSave",
             lateMinutes |-> editorLateMinutes(attendance.first_check_in_time,
                                               TheRoster.start_time, tzOffset)]
  /\ pc' = "lateDone"
  /\ UNCHANGED <<tzOffset, rosters, attendance, now, calls>>

\* the recalculation inside EditRosterStartDialog.handleSave
DialogRecalculation ==
  /\ pc = "late"
  /\ out' = [fn |-> "EditRosterStartDialog.handleSave",
             lateMinutes |-> dialogLateMinutes(attendance.first_check_in_time,
                                               TheRoster.start_time, tzOffset)]
  /\ pc' = "lateDone"
  /\ UNCHANGED <<tzOffset, rosters, attendance, now, calls>>

\* isEmployeeLate for the record's check-in and the roster's start time,
\* with or without the record's date as its date argument
IsEmployeeLate(gracePeriod, date) ==
  /\ Calculating
  /\ CheckedIn
  /\ TheRoster # NoRoster
  /\ out' = [fn |-> "isEmployeeLate", gracePeriod |-> gracePeriod, date |-> date,
             isLate |-> isEmployeeLate(attendance.first_check_in_time,
                                       TheRoster.start_time, gracePeriod, date,
                                       tzOffset)]
  /\ pc' = Done
  /\ UNCHANGED <<tzOffset, rosters, attendance, now, calls>>

NextLate ==
  \/ CalculateLateness
  \/ CalculateLateDuration
  \/ CalculateRosterBasedLateness
  \/ RecreationCalculateLateDuration
  \/ AttendanceDisplay
  \/ EditorRecalculation
  \/ DialogRecalculation

SpecLate == InitLate /\ [][NextLate]_vars

\* the roster's start and end instants on the calendar date of instant t
RosterStartOn(t) ==
  SetHours(t, TheRoster.start_time[1], TheRoster.start_time[2], tzOffset)
RosterEndOn(t) ==
  SetHours(t, TheRoster.end_time[1], TheRoster.end_time[2], tzOffset)

GraceOf(r) == Coalesce0(r.grace_period)

\* C1: for check-in c, roster start s on c's calendar date and grace g (0 when
\* absent), calculateLateness, calculateLateDuration and
\* calculateRosterBasedLateness return 0 late minutes when c <= s + g and
\* exactly k when c = s + g + k minutes, k > 0.
C1_LateMinutesAfterGrace ==
  (pc = "lateDone" /\ out.fn \in {"calculateLateness", "calculateLateDuration",
                                  "calculateRosterBasedLateness"})
  => LET c == attendance.first_check_in_time
         s == RosterStartOn(c)
         g == Minutes(GraceOf(TheRoster))
     IN /\ (c <= s + g) => out.lateMinutes = 0
        /\ \A k \in 1..(2 * MaxSpanMinutes) :
             (c = s + g + Minutes(k)) => out.lateMinutes = Minutes(k)

\* C2: the late minutes of every calculator, and the early-departure minutes
\* of attendance_display, are never negative.
C2_NeverNegative ==
  (pc = "lateDone")
  => /\ out.lateMinutes >= 0
     /\ (out.fn = "attendance_display") => out.earlyDepartureMinutes >= 0

\* C2 witness: the view has been evaluated for an arrival before the roster
\* start and a departure after the roster end, and reports 0 for both.
C2_Witness ==
  /\ pc = "lateDone"
  /\ out.fn = "attendance_display"
  /\ attendance.first_check_in_time < RosterStartOn(attendance.first_check_in_time)
  /\ attendance.first_check_out_time # NULL
  /\ attendance.first_check_out_time > RosterEndOn(attendance.first_check_out_time)
  /\ out.lateMinutes = 0
  /\ out.earlyDepartureMinutes = 0

\* ------------------------------------------------------ working-time figures
\* AttendanceDataRecreationService.calculateWorkingTime
calculateWorkingTime(firstCheckIn, firstCheckOut, secondCheckIn, secondCheckOut) ==
  LET first == IF firstCheckIn # NULL /\ firstCheckOut # NULL
               THEN Max(0, firstCheckOut - firstCheckIn) ELSE 0
      second == IF secondCheckIn # NULL /\ secondCheckOut # NULL
                THEN Max(0, secondCheckOut - secondCheckIn) ELSE 0
      totalMinutes == first + second
      breakMinutes == IF firstCheckOut # NULL /\ secondCheckIn # NULL
                      THEN Max(0, secondCheckIn - firstCheckOut) ELSE 0
  IN [totalMinutes |-> totalMinutes, breakMinutes |-> breakMinutes,
      netWorkingMinutes |-> totalMinutes - breakMinutes]

\* the row recreateAttendanceData writes for one fetched record
RecreatedRow(rs, record, tz) ==
  LET workingTime == calculateWorkingTime(record.first_check_in_time,
                       record.first_check_out_time, record.second_check_in_time,
                       record.second_check_out_time)
      lateDuration == IF record.roster_id # NULL /\ record.first_check_in_time # NULL
                      THEN recreationCalculateLateDuration(rs,
                             record.first_check_in_time, record.roster_id, tz)
                      ELSE 0
  IN [record EXCEPT !.working_duration_minutes = workingTime.netWorkingMinutes,
                    !.break_duration_minutes = workingTime.breakMinutes,
                    !.minutes_late = lateDuration]

\* x || 0
OrZero(x) == IF x = NULL THEN 0 ELSE x

\* the statuses fetchPresentEmployees asks for
PresentStatuses ==
  {"PRESENT", "CHECKED_IN", "CHECKED_OUT", "FIRST_SESSION_ACTIVE", "FIRST_CHECK_OUT",
   "SECOND_SESSION_ACTIVE", "SECOND_CHECK_OUT", "COMPLETED"}

\* fetchPresentEmployees: the figures derived for one attendance row
presentEmployee(record, clock) ==
  LET lateMinutes == IF record.minutes_late # NULL /\ record.minutes_late > 0
                     THEN record.minutes_late ELSE 0
      storedBreak == OrZero(record.break_duration_minutes)
      breakMinutes ==
        IF storedBreak = 0 /\ record.first_check_out_time # NULL
                           /\ record.second_check_in_time # NULL
        THEN differenceInMinutes(record.second_check_in_time,
                                 record.first_check_out_time)
        ELSE storedBreak
      storedWorking == OrZero(record.working_duration_minutes)
      firstSession ==
        IF record.first_check_out_time # NULL
        THEN differenceInMinutes(record.first_check_out_time, record.first_check_in_time)
        ELSE differenceInMinutes(clock, record.first_check_in_time)
      secondSession ==
        IF record.second_check_in_time = NULL THEN 0
        ELSE IF record.second_check_out_time # NULL
        THEN differenceInMinutes(record.second_check_out_time,
                                 record.second_check_in_time)
        ELSE differenceInMinutes(clock, record.second_check_in_time)
      workingMinutes ==
        IF storedWorking = 0 /\ record.first_check_in_time # NULL
        THEN firstSession + secondSession
        ELSE storedWorking
  IN [late_minutes |-> Max(0, lateMinutes), breakMinutes |-> breakMinutes,
      working_duration |-> workingMinutes]

\* hourly instants from 08:00 on
TimeGrid(tz) == {At(Today, 8 + i, 0, 0, tz) : i \in 0..MaxSlots}

\* the status a row carries, after the last event it holds
StatusOf(fi, fo, si, so) ==
  IF so # NULL THEN "COMPLETED"
  ELSE IF si # NULL THEN "SECOND_SESSION_ACTIVE"
  ELSE IF fo # NULL THEN "FIRST_CHECK_OUT"
  ELSE IF fi # NULL THEN "FIRST_SESSION_ACTIVE"
  ELSE "ABSENT"

\* One attendance row holding any combination of the four timestamps.
InitWork ==
  /\ pc = "work"
  /\ tzOffset \in TZOffsets
  /\ rosters = {NewRoster(1, "e1", Today - 1, Today + 1, <<8, 0>>)}
  /\ \E fi, fo, si, so \in {NULL} \cup TimeGrid(tzOffset) :
       attendance = [NewAttendance("e1", Today)
                       EXCEPT !.first_check_in_time = fi,
                              !.first_check_out_time = fo,
                              !.second_check_in_time = si,
                              !.second_check_out_time = so,
                              !.roster_id = 1,
                              !.status = StatusOf(fi, fo, si, so)]
  /\ now \in {At(Today, 8 + MaxSlots, 30, 0, tzOffset),
              At(Today, 8 + MaxSlots, 59, 20, tzOffset)}
  /\ calls = NoCalls
  /\ out = NoOut

CalculateWorkingTime ==
  /\ pc = "work"
  /\ LET res == calculateWorkingTime(attendance.first_check_in_time,
                  attendance.first_check_out_time, attendance.second_check_in_time,
                  attendance.second_check_out_time)
     IN out' = [fn |-> "calculateWorkingTime", totalMinutes |-> res.totalMinutes,
                breakMinutes |-> res.breakMinutes,
                netWorkingMinutes |-> res.netWorkingMinutes]
  /\ pc' = "workDone"
  /\ UNCHANGED <<tzOffset, rosters, attendance, now, calls>>

\* recreateAttendanceData over the one row: the update is committed, or the
\* store reports updateError and the row stays as it was
RecreateAttendanceData ==
  /\ pc \in {"work", "edge"}
  /\ \E updateError \in BOOLEAN :
       IF updateError
       THEN /\ attendance' = attendance
            /\ out' = [fn |-> "recreateAttendanceData", totalRecords |-> 1,
                       optimizedRecords |-> 0, errors |-> 1]
       ELSE /\ attendance' = RecreatedRow(rosters, attendance, tzOffset)
            /\ out' = [fn |-> "recreateAttendanceData", totalRecords |-> 1,
                       optimizedRecords |-> 1, errors |-> 0]
  /\ pc' = IF pc = "work" THEN "workStored" ELSE "edgeDone"
  /\ UNCHANGED <<tzOffset, rosters, now, calls>>

\* fetchPresentEmployees for the row's date
FetchPresentEmployees ==
  /\ pc \in {"work", "workStored"}
  /\ IF attendance.status \in PresentStatuses
     THEN LET e == presentEmployee(attendance, now)
          IN out' = [fn |-> "fetchPresentEmployees", found |-> 1,
                     late_minutes |-> e.late_minutes,
                     breakMinutes |-> e.breakMinutes,
                     working_duration |-> e.working_duration]
     ELSE out' = [fn |-> "fetchPresentEmployees", found |-> 0]
  /\ pc' = "workDone"
  /\ UNCHANGED <<tzOffset, rosters, attendance, now, calls>>

\* the record holds its first events, in order, and lacks the later ones
OpenInOrder(att) ==
  /\ att.first_check_in_time # NULL
  /\ att.second_check_out_time = NULL
  /\ att.first_check_out_time = NULL => att.second_check_in_time = NULL
  /\ att.first_check_out_time # NULL
       => att.first_check_in_time <= att.first_check_out_time
  /\ att.second_check_in_time # NULL
       => att.first_check_out_time <= att.second_check_in_time

\* the record with its next event stamped t
WithNextEvent(att, t) ==
  LET a == IF att.first_check_out_time = NULL
           THEN [att EXCEPT !.first_check_out_time = t]
           ELSE IF att.second_check_in_time = NULL
           THEN [att EXCEPT !.second_check_in_time = t]
           ELSE [att EXCEPT !.second_check_out_time = t]
  IN [a EXCEPT !.status = StatusOf(a.first_check_in_time, a.first_check_out_time,
                                   a.second_check_in_time, a.second_check_out_time)]

\* The next event of the record arrives, stamped t, and the figures just
\* computed are computed again; the earlier worked minutes are kept in before.
AddNextEvent(t) ==
  /\ pc = "workDone"
  /\ out.fn \in {"calculateWorkingTime", "fetchPresentEmployees"}
  /\ out.fn = "fetchPresentEmployees" => out.found = 1
  /\ OpenInOrder(attendance)
  /\ \A p \in {attendance.first_check_in_time, attendance.first_check_out_time,
                attendance.second_check_in_time} : p <= t
  /\ t <= now
  /\ attendance' = WithNextEvent(attendance, t)
  /\ out' = IF out.fn = "calculateWorkingTime"
            THEN LET res == calculateWorkingTime(attendance'.first_check_in_time,
                              attendance'.first_check_out_time,
                              attendance'.second_check_in_time,
                              attendance'.second_check_out_time)
                 IN [fn |-> "calculateWorkingTime", totalMinutes |-> res.totalMinutes,
                     breakMinutes |-> res.breakMinutes,
                     netWorkingMinutes |-> res.netWorkingMinutes,
                     before |-> out.netWorkingMinutes]
            ELSE LET e == presentEmployee(attendance', now)
                 IN [fn |-> "fetchPresentEmployees", found |-> 1,
                     late_minutes |-> e.late_minutes,
                     breakMinutes |-> e.breakMinutes,
                     working_duration |-> e.working_duration,
                     before |-> out.working_duration]
  /\ pc' = "workAdded"
  /\ UNCHANGED <<tzOffset, rosters, now, calls>>

\* how far the wall clock may move on between two evaluations, in seconds
ClockSteps == {SecondsPerMinute, 3600}

\* time passes after an evaluation; the record stays as it is
ClockAdvances(step) ==
  /\ pc = "workDone"
  /\ out.fn \in {"calculateWorkingTime", "fetchPresentEmployees"}
  /\ out.fn = "fetchPresentEmployees" => out.found = 1
  /\ now' = now + step
  /\ pc' = "workLater"
  /\ UNCHANGED <<tzOffset, rosters, attendance, calls, out>>

\* the evaluation just made is made again for the same record; neither
\* calculateWorkingTime nor fetchPresentEmployees takes an instant as an
\* argument, the latter reads new Date(); the first result is kept in first
EvaluateAgain ==
  /\ pc = "workLater"
  /\ out' = IF out.fn = "calculateWorkingTime"
            THEN LET res == calculateWorkingTime(attendance.first_check_in_time,
                              attendance.first_check_out_time,
                              attendance.second_check_in_time,
                              attendance.second_check_out_time)
                 IN [fn |-> "calculateWorkingTime", totalMinutes |-> res.totalMinutes,
                     breakMinutes |-> res.breakMinutes,
                     netWorkingMinutes |-> res.netWorkingMinutes,
                     first |-> out]
            ELSE LET e == presentEmployee(attendance, now)
                 IN [fn |-> "fetchPresentEmployees", found |-> 1,
                     late_minutes |-> e.late_minutes,
                     breakMinutes |-> e.breakMinutes,
                     working_duration |-> e.working_duration,
                     first |-> out]
  /\ pc' = "workAgain"
  /\ UNCHANGED <<tzOffset, rosters, attendance, now, calls>>

NextWork ==
  \/ CalculateWorkingTime
  \/ RecreateAttendanceData
  \/ FetchPresentEmployees
  \/ \E t \in TimeGrid(tzOffset) : AddNextEvent(t)
  \/ \E step \in ClockSteps : ClockAdvances(step)
  \/ EvaluateAgain

SpecWork == InitWork /\ [][NextWork]_vars

AllFourInOrder(att) ==
  /\ att.first_check_in_time # NULL
  /\ att.first_check_out_time # NULL
  /\ att.second_check_in_time # NULL
  /\ att.second_check_out_time # NULL
  /\ att.first_check_in_time <= att.first_check_out_time
  /\ att.first_check_out_time <= att.second_check_in_time
  /\ att.second_check_in_time <= att.second_check_out_time

SessionMinutes(att) ==
  (att.first_check_out_time - att.first_check_in_time)
    + (att.second_check_out_time - att.second_check_in_time)

Recreated == pc = "workStored" /\ out.optimizedRecords = 1

\* C3: for four timestamps present and non-decreasing, breakMinutes is
\* second_check_in - first_check_out, workedMinutes is the sum of the two
\* sessions, and that workedMinutes is what recreateAttendanceData stores in
\* working_duration_minutes (08:00/12:00/13:00/17:00 gives 60 and 480).
C3_WorkedIsSumOfSessions ==
  (Recreated /\ AllFourInOrder(attendance))
  => /\ attendance.break_duration_minutes
          = attendance.second_check_in_time - attendance.first_check_out_time
     /\ attendance.working_duration_minutes = SessionMinutes(attendance)

\* C4: for any combination of the four timestamps, the break minutes and the
\* worked minutes that are computed and stored are >= 0.
C4_BreakAndWorkedNonNegative ==
  /\ (pc = "workDone" /\ out.fn = "calculateWorkingTime")
     => out.breakMinutes >= 0 /\ out.netWorkingMinutes >= 0
  /\ Recreated
     => /\ attendance.break_duration_minutes >= 0
        /\ attendance.working_duration_minutes >= 0
  /\ (pc = "workDone" /\ out.fn = "fetchPresentEmployees" /\ out.found = 1)
     => out.breakMinutes >= 0 /\ out.working_duration >= 0

\* ------------------------------------------------- attendance status machine
\* The write path of attendance events (recordAttendance and its kin in
\* attendanceUtils) follows the transition table and the error taxonomy of
\* the specification.
EventTypes == {"first_check_in", "first_check_out", "second_check_in",
               "second_check_out"}

StatusOrder ==
  <<"ABSENT", "FIRST_SESSION_ACTIVE", "FIRST_CHECK_OUT", "SECOND_SESSION_ACTIVE",
    "COMPLETED">>

EventOrder ==
  <<"first_check_in", "first_check_out", "second_check_in", "second_check_out">>

EventIndex(ev) == CHOOSE i \in 1..4 : EventOrder[i] = ev
StatusIndex(st) == CHOOSE i \in 1..5 : StatusOrder[i] = st

\* the state an event leaves from and the state it produces
FromStatus(ev) == StatusOrder[EventIndex(ev)]
ToStatus(ev) == StatusOrder[EventIndex(ev) + 1]

Timestamps(att) ==
  {att.first_check_in_time, att.first_check_out_time, att.second_check_in_time,
   att.second_check_out_time} \ {NULL}

WithTimestamp(att, ev, t) ==
  IF ev = "first_check_in" THEN [att EXCEPT !.first_check_in_time = t]
  ELSE IF ev = "first_check_out" THEN [att EXCEPT !.first_check_out_time = t]
  ELSE IF ev = "second_check_in" THEN [att EXCEPT !.second_check_in_time = t]
  ELSE [att EXCEPT !.second_check_out_time = t]

\* Roster Resolver: the applicable roster, the latest created when several match
resolve(rs, employeeId, date) ==
  LET found == ActiveRostersOn(rs, employeeId, date)
  IN IF found = {} THEN NoRoster ELSE LatestCreated(found)

\* lateMinutes = max(0, delta - grace_period), zero without a roster
lateMinutesOf(checkIn, roster, tz) ==
  IF roster = NoRoster \/ roster.start_time = NoTime THEN 0
  ELSE Max(0, Trunc(checkIn
                      - SetHours(checkIn, roster.start_time[1], roster.start_time[2], tz)
                      - Minutes(Coalesce0(roster.grace_period))))

\* workingTime(events, now): sessions still open are measured up to now
workingTime(att, clock) ==
  LET Span(from, to) ==
        IF from = NULL THEN 0
        ELSE Max(0, Trunc((IF to = NULL THEN clock ELSE to) - from))
  IN [breakMinutes |->
        IF att.first_check_out_time # NULL /\ att.second_check_in_time # NULL
           /\ att.second_check_in_time > att.first_check_out_time
        THEN Trunc(att.second_check_in_time - att.first_check_out_time)
        ELSE 0,
      workedMinutes |->
        Span(att.first_check_in_time, att.first_check_out_time)
          + Span(att.second_check_in_time, att.second_check_out_time)]

\* the row after an accepted event, with its derived fields recomputed
Accepted(rs, att, ev, t, tz) ==
  LET a == [WithTimestamp(att, ev, t) EXCEPT !.status = ToStatus(ev)]
      roster == resolve(rs, att.employee_id, att.date)
      w == workingTime(a, t)
  IN [a EXCEPT !.roster_id = IF ev = "first_check_in" THEN roster.id ELSE @,
               !.minutes_late = IF ev = "first_check_in"
                                THEN lateMinutesOf(t, roster, tz) ELSE @,
               !.working_duration_minutes = w.workedMinutes,
               !.break_duration_minutes = w.breakMinutes]

\* eventOutcome letting an event through from any earlier state
eventOutcome_skipState(att, ev, t) ==
  IF \E p \in Timestamps(att) : t < p THEN "rejected"
  ELSE IF att.status = ToStatus(ev) THEN "unchanged"
  ELSE IF StatusIndex(att.status) <= EventIndex(ev) /\ \A p \in Timestamps(att) : p < t
  THEN "accepted"
  ELSE "rejected"

\* eventOutcome without the comparison against the recorded timestamps
eventOutcome_noTimeCheck(att, ev, t) ==
  IF att.status = ToStatus(ev) THEN "unchanged"
  ELSE IF att.status = FromStatus(ev) THEN "accepted"
  ELSE "rejected"

\* eventOutcome taking a re-submitted event as a new one
eventOutcome_resubmit(att, ev, t) ==
  IF \E p \in Timestamps(att) : t < p THEN "rejected"
  ELSE IF att.status = ToStatus(ev) THEN "accepted"
  ELSE IF att.status = FromStatus(ev) /\ \A p \in Timestamps(att) : p < t
  THEN "accepted"
  ELSE "rejected"

\* what the write boundary does with event ev stamped t
eventOutcome(att, ev, t) ==
  IF \E p \in Timestamps(att) : t < p THEN "rejected"
  ELSE IF att.status = ToStatus(ev) THEN "unchanged"
  ELSE IF att.status = FromStatus(ev) /\ \A p \in Timestamps(att) : p < t
  THEN "accepted"
  ELSE "rejected"

\* The functions that create the attendance record (recordAttendance,
\* singleScanAttendance, createFirstCheckIn) look up the employee's active
\* roster first and throw when there is none: attendance.roster_id is NOT NULL.
rosterValidated(rs, att, ev) ==
  (ev = "first_check_in" /\ att.status = "ABSENT")
    => ActiveRostersOn(rs, att.employee_id, att.date) # {}

\* the outcome of recording event ev stamped t
recordOutcome(rs, att, ev, t) ==
  IF ~rosterValidated(rs, att, ev) THEN "rejected" ELSE eventOutcome(att, ev, t)

\* A day that starts with no attendance row for the employee, who may or may
\* not have a roster.
InitAtt ==
  /\ pc = "day"
  /\ tzOffset \in TZOffsets
  /\ \E g \in GracePeriods :
       rosters \in {{}, {[NewRoster(1, "e1", Today - 1, Today + 1, <<8, 0>>)
                            EXCEPT !.grace_period = g]}}
  /\ attendance = NewAttendance("e1", Today)
  /\ now = At(Today, 8 + MaxSlots, 30, 0, tzOffset)
  /\ calls = NoCalls
  /\ out = NoOut

\* RecordEvent storing the timestamp of an event it rejects
RecordEvent_writesRejected(ev, t) ==
  /\ pc = "day"
  /\ LET outcome == recordOutcome(rosters, attendance, ev, t)
     IN /\ attendance' = IF outcome = "accepted"
                         THEN Accepted(rosters, attendance, ev, t, tzOffset)
                         ELSE IF outcome = "rejected"
                         THEN WithTimestamp(attendance, ev, t)
                         ELSE attendance
        /\ out' = [fn |-> "recordEvent", event |-> ev, at |-> t, result |-> outcome]
  /\ UNCHANGED <<pc, tzOffset, rosters, now, calls>>

RecordEvent(ev, t) ==
  /\ pc = "day"
  /\ LET outcome == recordOutcome(rosters, attendance, ev, t)
     IN /\ attendance' = IF outcome = "accepted"
                         THEN Accepted(rosters, attendance, ev, t, tzOffset)
                         ELSE attendance
        /\ out' = [fn |-> "recordEvent", event |-> ev, at |-> t, result |-> outcome]
  /\ UNCHANGED <<pc, tzOffset, rosters, now, calls>>

EventGrid(tz) == {At(Today, 8 + i, 0, 0, tz) : i \in 0..MaxEventSlots}

NextAtt == \E ev \in EventTypes, t \in EventGrid(tzOffset) : RecordEvent(ev, t)

SpecAtt == InitAtt /\ [][NextAtt]_vars

TimestampOf(att, ev) ==
  IF ev = "first_check_in" THEN att.first_check_in_time
  ELSE IF ev = "first_check_out" THEN att.first_check_out_time
  ELSE IF ev = "second_check_in" THEN att.second_check_in_time
  ELSE att.second_check_out_time

SameTimestamps(a, b) == \A ev \in EventTypes : TimestampOf(a, ev) = TimestampOf(b, ev)

\* C5: the status changes only along ABSENT -> FIRST_SESSION_ACTIVE ->
\* FIRST_CHECK_OUT -> SECOND_SESSION_ACTIVE -> COMPLETED, one state at a time,
\* each change recording exactly one new timestamp later than all prior ones;
\* once COMPLETED no event changes the record.
C5_StatusTransitions ==
  [][/\ (attendance'.status # attendance.status)
        => \E ev \in EventTypes :
             /\ attendance.status = FromStatus(ev)
             /\ attendance'.status = ToStatus(ev)
             /\ TimestampOf(attendance, ev) = NULL
             /\ TimestampOf(attendance', ev) # NULL
             /\ \A p \in Timestamps(attendance) : p < TimestampOf(attendance', ev)
             /\ SameTimestamps(attendance',
                               WithTimestamp(attendance, ev, TimestampOf(attendance', ev)))
     /\ (attendance.status = "COMPLETED") => attendance' = attendance
    ]_vars

\* C5 witness: a record that went through every state and then refused an event
C5_Witness ==
  /\ attendance.status = "COMPLETED"
  /\ Cardinality(Timestamps(attendance)) = 4
  /\ out.fn = "recordEvent"
  /\ out.result # "accepted"

\* C6: the timestamps present on the record satisfy
\* first_check_in <= first_check_out <= second_check_in <= second_check_out.
C6_TimestampsNonDecreasing ==
  \A i, j \in 1..4 :
    (/\ i < j
     /\ TimestampOf(attendance, EventOrder[i]) # NULL
     /\ TimestampOf(attendance, EventOrder[j]) # NULL)
    => TimestampOf(attendance, EventOrder[i]) <= TimestampOf(attendance, EventOrder[j])

\* C6 witness: a record holding all four timestamps
C6_Witness ==
  /\ pc = "day"
  /\ \A ev \in EventTypes : TimestampOf(attendance, ev) # NULL

\* an event stamped before a recorded timestamp, or whose predecessor is missing
OutOfOrder(att, ev, t) ==
  \/ \E p \in Timestamps(att) : t < p
  \/ /\ EventIndex(ev) > 1
     /\ TimestampOf(att, EventOrder[EventIndex(ev) - 1]) = NULL

\* C7: an out-of-order event is rejected as a validation failure and leaves
\* the record exactly as it was.
C7_OutOfOrderRejected ==
  [][(out'.fn = "recordEvent" /\ OutOfOrder(attendance, out'.event, out'.at))
     => (out'.result = "rejected" /\ attendance' = attendance)]_vars

\* C7 witness: a second check-in arrived before any first check-out and was
\* rejected
C7_Witness ==
  /\ out.fn = "recordEvent"
  /\ out.event = "second_check_in"
  /\ out.result = "rejected"
  /\ attendance.first_check_in_time # NULL
  /\ attendance.first_check_out_time = NULL
  /\ attendance.second_check_in_time = NULL

\* C8: re-submitting the event type that produced the current state causes no
\* transition and changes no stored timestamp or derived metric.
C8_ResubmitIdempotent ==
  [][(out'.fn = "recordEvent" /\ attendance.status = ToStatus(out'.event))
     => attendance' = attendance]_vars

\* C8 witness: a first check-in re-submitted to a record in FIRST_SESSION_ACTIVE
C8_Witness ==
  /\ out.fn = "recordEvent"
  /\ out.event = "first_check_in"
  /\ out.result = "unchanged"
  /\ attendance.status = "FIRST_SESSION_ACTIVE"
  /\ out.at >= attendance.first_check_in_time

\* ---------------------------------------------------------- roster operations
maxConsecutiveDays == 5

\* RosterRecreationService.generateTimeSlot('morning')
MorningSlot == [start_time |-> <<9, 0>>, end_time |-> <<17, 0>>]

\* a time zone: its offset from UTC in seconds before and from the instant
\* change on (the same offset twice for a zone without daylight saving time)
FixedZone(tz) == [before |-> tz, after |-> tz, change |-> 0]

OffsetAt(zone, t) == IF t < zone.change THEN zone.before ELSE zone.after

\* Date.prototype.getDate() and the time of day, on the local wall clock
LocalDay(zone, t) == (t + OffsetAt(zone, t)) \div SecondsPerDay
LocalTimeOfDay(zone, t) == (t + OffsetAt(zone, t)) % SecondsPerDay

\* the instant at which the local wall clock reads wall (seconds since the
\* epoch as read on that clock)
FromLocal(zone, wall) ==
  IF wall - zone.after >= zone.change THEN wall - zone.after
  ELSE wall - zone.before

\* currentDate.setDate(currentDate.getDate() + 1): the same local time of
\* day on the next local calendar day
NextLocalDay(zone, t) ==
  FromLocal(zone, (LocalDay(zone, t) + 1) * SecondsPerDay + LocalTimeOfDay(zone, t))

\* new Date('YYYY-MM-DD'): midnight UTC of the date
DateOnly(date) == date * SecondsPerDay

\* RosterRecreationService.optimizeShiftPattern, its loop: an entry for the
\* UTC date of currentDate, a day off forced after maxConsecutiveDays working
\* days (no day is unavailable and the preferred shift is 'morning'), then
\* currentDate moved on by a local day
RECURSIVE shiftPatternFrom(_, _, _, _)
shiftPatternFrom(currentDate, end, consecutiveDays, zone) ==
  IF currentDate > end THEN <<>>
  ELSE LET dateStr == ISODate(currentDate)
       IN IF consecutiveDays >= maxConsecutiveDays
          THEN <<[date |-> dateStr, shift |-> "off", time_slot |-> NoSlot]>>
                 \o shiftPatternFrom(NextLocalDay(zone, currentDate), end, 0, zone)
          ELSE <<[date |-> dateStr, shift |-> "morning", time_slot |-> MorningSlot]>>
                 \o shiftPatternFrom(NextLocalDay(zone, currentDate), end,
                                     consecutiveDays + 1, zone)

optimizeShiftPattern(startDate, endDate, zone) ==
  shiftPatternFrom(DateOnly(startDate), DateOnly(endDate), 0, zone)

NextId(rs) == 1 + Cardinality(rs)

\* RosterService.createRoster: the table with the new row, stamped on insert
createRoster(rs, fields) ==
  rs \cup {[fields EXCEPT !.id = NextId(rs), !.created_at = NextId(rs)]}

\* RosterService.updateRoster(rosterId, {is_active: false, status: 'completed'})
updateRoster(rs, rosterId) ==
  {IF r.id = rosterId THEN [r EXCEPT !.is_active = FALSE, !.status = "completed"]
   ELSE r : r \in rs}

\* supabase.from('rosters').update({start_time}).eq('id', rosterId)
updateStartTime(rs, rosterId, rosterStart) ==
  {IF r.id = rosterId THEN [r EXCEPT !.start_time = rosterStart] ELSE r : r \in rs}

CallIds == {"recreateRoster", "createDepartmentRoster", "handleSave",
            "dialogHandleSave"}
Idle == [pc |-> "idle"]

\* the start times an editor may type
EditedStartTimes == {<<8, 0>>, <<8, 30>>}

\* One employee with a roster around Today (active, or already deactivated)
\* and an attendance row of Today that refers to it.
InitRoster ==
  /\ pc = "rosters"
  /\ tzOffset = 0
  /\ \E active \in BOOLEAN :
       rosters = {[NewRoster(1, "e1", Today - 1, Today + 1, <<8, 0>>)
                     EXCEPT !.is_active = active]}
  /\ attendance = [NewAttendance("e1", Today)
                     EXCEPT !.first_check_in_time = At(Today, 8, 20, 40, tzOffset),
                            !.roster_id = 1,
                            !.status = "FIRST_SESSION_ACTIVE",
                            !.minutes_late = Minutes(20)]
  /\ now = At(Today, 18, 0, 0, tzOffset)
  /\ calls = [c \in CallIds |-> Idle]
  /\ out = NoOut

Finish(c) == calls' = [calls EXCEPT ![c] = Idle]

\* the operations are issued one after another
NoCallInProgress == \A c \in CallIds : calls[c].pc = "idle"

\* getEmployeeRosterForDate(employeeId, date)
ResolveRoster(employeeId, date) ==
  /\ pc = "rosters"
  /\ out' = [fn |-> "getEmployeeRosterForDate", employeeId |-> employeeId,
             date |-> date,
             picked |-> getEmployeeRosterForDate(rosters, employeeId, date).id]
  /\ UNCHANGED <<pc, tzOffset, rosters, attendance, now, calls>>

\* recreateRoster, up to its first await: getRosterById
RecreateGet(rosterId) ==
  /\ pc = "rosters"
  /\ NoCallInProgress
  /\ LET existingRoster == getRosterById(rosters, rosterId)
     IN IF existingRoster = NoRoster
        THEN /\ out' = [fn |-> "recreateRoster", result |-> "Roster not found"]
             /\ UNCHANGED calls
        ELSE /\ out' = [fn |-> "recreateRoster", result |-> "found"]
             /\ calls' = [calls EXCEPT !["recreateRoster"] =
                            [pc |-> "create", rosterId |-> rosterId,
                             existingRoster |-> existingRoster]]
  /\ UNCHANGED <<pc, tzOffset, rosters, attendance, now>>

\* recreateRoster: createRoster of the optimized copy, or its failure
RecreateCreate ==
  /\ pc = "rosters"
  /\ calls["recreateRoster"].pc = "create"
  /\ LET c == calls["recreateRoster"]
         optimizedPattern == optimizeShiftPattern(c.existingRoster.start_date,
                                                  c.existingRoster.end_date,
                                                  FixedZone(tzOffset))
     IN \/ /\ Cardinality(rosters) < MaxRosters
           /\ rosters' = createRoster(rosters,
                           [c.existingRoster EXCEPT !.shift_pattern = optimizedPattern,
                                                    !.is_active = TRUE,
                                                    !.status = "active"])
           /\ calls' = [calls EXCEPT !["recreateRoster"].pc = "deactivate"]
           /\ out' = [fn |-> "recreateRoster", result |-> "created"]
        \/ /\ UNCHANGED rosters
           /\ Finish("recreateRoster")
           /\ out' = [fn |-> "recreateRoster", result |-> "error"]
  /\ UNCHANGED <<pc, tzOffset, attendance, now>>

\* recreateRoster: updateRoster deactivating the old roster, or its failure
RecreateDeactivate ==
  /\ pc = "rosters"
  /\ calls["recreateRoster"].pc = "deactivate"
  /\ \/ /\ rosters' = updateRoster(rosters, calls["recreateRoster"].rosterId)
        /\ out' = [fn |-> "recreateRoster", result |-> "ok"]
     \/ /\ UNCHANGED rosters
        /\ out' = [fn |-> "recreateRoster", result |-> "error"]
  /\ Finish("recreateRoster")
  /\ UNCHANGED <<pc, tzOffset, attendance, now>>

\* createDepartmentRoster, up to the fetch of the department's active employees
DepartmentFetch(startDate, endDate) ==
  /\ pc = "rosters"
  /\ NoCallInProgress
  /\ \/ \E employees \in {<<"e1", "e2">>, <<"e2", "e1">>} :
          /\ calls' = [calls EXCEPT !["createDepartmentRoster"] =
                         [pc |-> "loop", employees |-> employees,
                          startDate |-> startDate, endDate |-> endDate]]
          /\ out' = [fn |-> "createDepartmentRoster", result |-> "fetched"]
     \/ /\ UNCHANGED calls
        /\ out' = [fn |-> "createDepartmentRoster", result |-> "error"]
  /\ UNCHANGED <<pc, tzOffset, rosters, attendance, now>>

\* createDepartmentRoster: one turn of the loop, createRoster for one employee
DepartmentCreate ==
  /\ pc = "rosters"
  /\ calls["createDepartmentRoster"].pc = "loop"
  /\ LET c == calls["createDepartmentRoster"]
         employee == Head(c.employees)
         fields == [NewRoster(0, employee, c.startDate, c.endDate, <<9, 0>>)
                      EXCEPT !.early_departure_threshold = 30,
                             !.shift_pattern =
                               optimizeShiftPattern(c.startDate, c.endDate,
                                                    FixedZone(tzOffset))]
     IN \/ /\ Cardinality(rosters) < MaxRosters
           /\ rosters' = createRoster(rosters, fields)
           /\ IF Len(c.employees) = 1
              THEN /\ Finish("createDepartmentRoster")
                   /\ out' = [fn |-> "createDepartmentRoster", result |-> "ok"]
              ELSE /\ calls' = [calls EXCEPT !["createDepartmentRoster"].employees =
                                  Tail(c.employees)]
                   /\ out' = [fn |-> "createDepartmentRoster", result |-> "created"]
        \/ /\ UNCHANGED rosters
           /\ Finish("createDepartmentRoster")
           /\ out' = [fn |-> "createDepartmentRoster", result |-> "error"]
  /\ UNCHANGED <<pc, tzOffset, attendance, now>>

\* RosterStartEditor.handleSave, up to the query for the employee's active
\* rosters on the record's date; the query has no ORDER BY, so any matching
\* row may come first
EditorFetch(rosterStart) ==
  /\ pc = "rosters"
  /\ NoCallInProgress
  /\ LET record == attendance
         existingRosters == ActiveRostersOn(rosters, record.employee_id, record.date)
     IN \/ \E existingRoster \in
               (IF existingRosters = {} THEN {NoRoster} ELSE existingRosters) :
             /\ calls' = [calls EXCEPT !["handleSave"] =
                            [pc |-> "write", record |-> record,
                             rosterStart |-> rosterStart,
                             existingRoster |-> existingRoster,
                             rosterId |-> record.roster_id]]
             /\ out' = [fn |-> "handleSave", result |-> "looked up",
                        employeeId |-> record.employee_id, date |-> record.date,
                        picked |-> existingRoster.id]
        \/ /\ UNCHANGED calls
           /\ out' = [fn |-> "handleSave", result |-> "error"]
  /\ UNCHANGED <<pc, tzOffset, rosters, attendance, now>>

\* handleSave: update the roster found, or insert one for the record's date
EditorWrite ==
  /\ pc = "rosters"
  /\ calls["handleSave"].pc = "write"
  /\ LET c == calls["handleSave"]
         inserted == [NewRoster(NextId(rosters), c.record.employee_id,
                                c.record.date, c.record.date, c.rosterStart)
                        EXCEPT !.end_time = <<17, 30>>]
     IN \/ /\ c.existingRoster # NoRoster
           /\ rosters' = IF c.existingRoster.start_time # c.rosterStart
                         THEN updateStartTime(rosters, c.existingRoster.id, c.rosterStart)
                         ELSE rosters
           /\ calls' = [calls EXCEPT !["handleSave"].pc = "attendance",
                                     !["handleSave"].rosterId = c.existingRoster.id]
           /\ out' = [fn |-> "handleSave", result |-> "roster updated"]
        \/ /\ c.existingRoster = NoRoster
           /\ Cardinality(rosters) < MaxRosters
           /\ rosters' = rosters \cup {inserted}
           /\ calls' = [calls EXCEPT !["handleSave"].pc = "attendance",
                                     !["handleSave"].rosterId = inserted.id]
           /\ out' = [fn |-> "handleSave", result |-> "roster created"]
        \/ /\ IF c.existingRoster = NoRoster THEN TRUE
              ELSE c.existingRoster.start_time # c.rosterStart
           /\ UNCHANGED rosters
           /\ Finish("handleSave")
           /\ out' = [fn |-> "handleSave", result |-> "error"]
  /\ UNCHANGED <<pc, tzOffset, attendance, now>>

\* handleSave: point the attendance record at the roster
EditorAttendance ==
  /\ pc = "rosters"
  /\ calls["handleSave"].pc = "attendance"
  /\ LET c == calls["handleSave"]
     IN \/ /\ attendance' = IF c.record.roster_id # c.rosterId
                            THEN [attendance EXCEPT !.roster_id = c.rosterId]
                            ELSE attendance
           /\ calls' = [calls EXCEPT !["handleSave"].pc = "late"]
           /\ out' = [fn |-> "handleSave", result |-> "attendance updated"]
        \/ /\ c.record.roster_id # c.rosterId
           /\ UNCHANGED attendance
           /\ Finish("handleSave")
           /\ out' = [fn |-> "handleSave", result |-> "error"]
  /\ UNCHANGED <<pc, tzOffset, rosters, now>>

\* handleSave: store the recomputed late minutes
EditorLate ==
  /\ pc = "rosters"
  /\ calls["handleSave"].pc = "late"
  /\ LET c == calls["handleSave"]
     IN \/ /\ attendance' =
                IF c.record.first_check_in_time # NULL
                THEN [attendance EXCEPT !.minutes_late =
                        editorLateMinutes(c.record.first_check_in_time,
                                          c.rosterStart, tzOffset)]
                ELSE attendance
           /\ out' = [fn |-> "handleSave", result |-> "ok"]
        \/ /\ c.record.first_check_in_time # NULL
           /\ UNCHANGED attendance
           /\ out' = [fn |-> "handleSave", result |-> "error"]
  /\ Finish("handleSave")
  /\ UNCHANGED <<pc, tzOffset, rosters, now>>

\* EditRosterStartDialog.handleSave, its first await: the start time of the
\* record's roster is updated (of no row when the record has no roster)
DialogUpdateRoster(rosterStart) ==
  /\ pc = "rosters"
  /\ NoCallInProgress
  /\ LET record == attendance
     IN \/ /\ rosters' = updateStartTime(rosters, record.roster_id, rosterStart)
           /\ calls' = [calls EXCEPT !["dialogHandleSave"] =
                          [pc |-> "attendance", record |-> record,
                           rosterStart |-> rosterStart]]
           /\ out' = [fn |-> "dialogHandleSave", result |-> "roster updated"]
        \/ /\ UNCHANGED <<rosters, calls>>
           /\ out' = [fn |-> "dialogHandleSave", result |-> "error"]
  /\ UNCHANGED <<pc, tzOffset, attendance, now>>

\* EditRosterStartDialog.handleSave: store the recomputed late minutes
DialogUpdateAttendance ==
  /\ pc = "rosters"
  /\ calls["dialogHandleSave"].pc = "attendance"
  /\ LET c == calls["dialogHandleSave"]
     IN \/ /\ attendance' =
                [attendance EXCEPT !.minutes_late =
                   dialogLateMinutes(c.record.first_check_in_time, c.rosterStart,
                                     tzOffset)]
           /\ out' = [fn |-> "dialogHandleSave", result |-> "ok"]
        \/ /\ UNCHANGED attendance
           /\ out' = [fn |-> "dialogHandleSave", result |-> "error"]
  /\ Finish("dialogHandleSave")
  /\ UNCHANGED <<pc, tzOffset, rosters, now>>

NextRoster ==
  \/ \E e \in Employees : ResolveRoster(e, Today)
  \/ \E id \in 0..MaxRosters : RecreateGet(id)
  \/ RecreateCreate
  \/ RecreateDeactivate
  \/ \E d \in {Today, Today + 1} : DepartmentFetch(d, Today + 1)
  \/ DepartmentCreate
  \/ \E st \in EditedStartTimes : EditorFetch(st)
  \/ EditorWrite
  \/ EditorAttendance
  \/ EditorLate
  \/ \E st \in EditedStartTimes : DialogUpdateRoster(st)
  \/ DialogUpdateAttendance

SpecRoster == InitRoster /\ [][NextRoster]_vars

\* C9: in every state the roster operations can reach, the states between the
\* steps of one operation and after a failed step included, each employee has
\* for each date at most one active roster whose range covers the date.
C9_AtMostOneActiveRoster ==
  pc = "rosters" =>
    \A e \in Employees : \A d \in (Today - 1)..(Today + 1) :
      Cardinality({r \in rosters : /\ r.employee_id = e
                                   /\ r.is_active
                                   /\ r.start_date <= d
                                   /\ d <= r.end_date}) <= 1

\* the rosters a resolution for the employee and date may consider
Matching(e, d) ==
  {r \in rosters : /\ r.employee_id = e
                   /\ r.is_active
                   /\ r.start_date <= d
                   /\ d <= r.end_date}

IsLookup ==
  \/ out.fn = "getEmployeeRosterForDate"
  \/ out.fn = "handleSave" /\ out.result = "looked up"

\* C10: a resolution for an employee and date yields a roster of that employee
\* that is active and covers the date, and of several such rosters the one
\* with the latest created_at, at getEmployeeRosterForDate and at the lookup
\* of RosterStartEditor.handleSave alike.
C10_LatestCreatedSelected ==
  IsLookup =>
    LET matching == Matching(out.employeeId, out.date)
    IN IF matching = {} THEN out.picked = NULL
       ELSE \E r \in matching :
              /\ out.picked = r.id
              /\ \A q \in matching : q.created_at <= r.created_at

\* ------------------------------------------- rosters missing, odd or patterned
\* start times as they may reach the calculators: well formed, absent, "08"
\* and "ab:30"
EdgeStartTimes == {<<8, 0>>, NoTime, <<8>>, <<NaN, 30>>}

ShiftEntry(date, day, shift, slot) ==
  [date |-> date, day |-> day, shift |-> shift, time_slot |-> slot]

\* shift patterns: none, an entry for Today keyed by date or by weekday,
\* working 09:00-17:00 or off, and a pattern that is not an array
EdgePatterns(tz) ==
  {<<>>, MalformedPattern}
    \cup {<<ShiftEntry(Today, NULL, sh[1], sh[2])>> :
            sh \in {<<"morning", MorningSlot>>, <<"off", NoSlot>>}}
    \cup {<<ShiftEntry(NULL, DayOfWeek(Today, tz), sh[1], sh[2])>> :
            sh \in {<<"morning", MorningSlot>>, <<"off", NoSlot>>}}

\* check-ins of Today: before the start, 20 seconds, 20 minutes and 1 minute
\* 40 seconds after 08:00, after 09:00, and shortly after midnight
EdgeCheckIns(tz) ==
  {At(Today, 7, 40, 0, tz), At(Today, 8, 0, 20, tz), At(Today, 8, 1, 40, tz),
   At(Today, 8, 20, 0, tz), At(Today, 9, 20, 40, tz), At(Today, 0, 10, 0, tz)}

\* One attendance row of Today, or of the day before, checked in on Today or
\* not checked in yet;
\* roster 1 of the employee, active or not, and a roster_id that is null,
\* that of roster 1, or that of no roster.
InitEdge ==
  /\ pc = "edge"
  /\ tzOffset \in TZOffsets
  /\ \E st \in EdgeStartTimes, sp \in EdgePatterns(tzOffset), active \in BOOLEAN :
       rosters = {[NewRoster(1, "e1", Today - 1, Today + 1, st)
                     EXCEPT !.shift_pattern = sp, !.is_active = active]}
  /\ \E ci \in EdgeCheckIns(tzOffset) \cup {NULL}, d \in {Today - 1, Today},
        rid \in {NULL, 1, 2} :
       attendance = [NewAttendance("e1", d)
                       EXCEPT !.first_check_in_time = ci,
                              !.roster_id = rid,
                              !.status = IF ci = NULL THEN "ABSENT"
                                         ELSE "FIRST_SESSION_ACTIVE"]
  /\ now = At(Today, 18, 0, 0, tzOffset)
  /\ calls = NoCalls
  /\ out = NoOut

\* PresentEmployeeReport shows the effective roster start of the record
GetEffectiveRosterStart ==
  /\ pc = "edge"
  /\ out' = [fn |-> "getEffectiveRosterStart",
             start_time |-> getEffectiveRosterStart(attendance, TheRoster, tzOffset)]
  /\ pc' = "edgeDone"
  /\ UNCHANGED <<tzOffset, rosters, attendance, now, calls>>

NextEdge ==
  \/ \E g \in {0, 15}, d \in {NULL, attendance.date} : IsEmployeeLate(g, d)
  \/ CalculateLateness
  \/ CalculateLateDuration
  \/ CalculateRosterBasedLateness
  \/ RecreationCalculateLateDuration
  \/ RecreateAttendanceData
  \/ GetEffectiveRosterStart

SpecEdge == InitEdge /\ [][NextEdge]_vars

\* no roster matches the record's employee and date
NoRosterMatches ==
  \A r \in rosters : \/ r.employee_id # attendance.employee_id
                     \/ ~r.is_active
                     \/ attendance.date < r.start_date
                     \/ attendance.date > r.end_date

\* the record's roster_id is that of no roster
NoRosterReferenced == \A r \in rosters : r.id # attendance.roster_id

\* C11: when no roster matches, calculateRosterBasedLateness and
\* AttendanceDataRecreationService.calculateLateDuration return 0, and
\* recreateAttendanceData fails on no such record and writes its derived
\* fields with minutes_late = 0.
C11_NoRosterGivesZero ==
  pc = "edgeDone" =>
    /\ (out.fn = "calculateRosterBasedLateness" /\ NoRosterMatches)
         => out.lateMinutes = 0
    /\ (out.fn = "AttendanceDataRecreationService.calculateLateDuration"
          /\ NoRosterReferenced)
         => out.lateMinutes = 0
    /\ (out.fn = "recreateAttendanceData" /\ NoRosterReferenced
          /\ out.optimizedRecords = 1)
         => /\ attendance.minutes_late = 0
            /\ attendance.working_duration_minutes # NULL
            /\ attendance.break_duration_minutes # NULL

\* C11 witness: a record checked in 20 minutes after 08:00 whose roster_id is
\* that of no roster has been recreated, with minutes_late 0.
C11_Witness ==
  /\ pc = "edgeDone"
  /\ out.fn = "recreateAttendanceData"
  /\ out.optimizedRecords = 1
  /\ attendance.roster_id = 2
  /\ attendance.first_check_in_time = At(Today, 8, 20, 0, tzOffset)
  /\ attendance.minutes_late = 0

\* C12: recording a first check-in for an employee without a resolvable roster
\* is not rejected: the record is persisted with status FIRST_SESSION_ACTIVE
\* and minutes_late 0.
C12_MissingRosterDoesNotBlock ==
  (pc = "day" /\ out.fn = "recordEvent" /\ out.event = "first_check_in"
     /\ ActiveRostersOn(rosters, attendance.employee_id, attendance.date) = {})
  => /\ out.result # "rejected"
     /\ attendance.status = "FIRST_SESSION_ACTIVE"
     /\ attendance.first_check_in_time = out.at
     /\ attendance.minutes_late = 0

\* the roster of the record, and the entries of its shift pattern that apply
\* to the record's date, keyed by that date or by its weekday
EdgeRoster == CHOOSE r \in rosters : TRUE

ApplicableEntries ==
  LET pattern == EdgeRoster.shift_pattern
  IN IF pattern = MalformedPattern THEN {}
     ELSE {pattern[i] : i \in {j \in 1..Len(pattern) :
             \/ pattern[j].date = attendance.date
             \/ pattern[j].day = DayOfWeek(attendance.date, tzOffset)}}

\* the roster is well formed, resolves for the record and is the one the
\* record references, and the check-in falls on the record's date
RosterInForce ==
  /\ EdgeRoster.start_time = <<8, 0>>
  /\ EdgeRoster.is_active
  /\ attendance.roster_id = EdgeRoster.id
  /\ LocalDate(attendance.first_check_in_time, tzOffset) = attendance.date

\* whole minutes by which the check-in is after start time st of its date
WholeMinutesAfter(st) ==
  Max(0, MathFloor(attendance.first_check_in_time
                     - SetHours(attendance.first_check_in_time, st[1], st[2], tzOffset)))

\* C13: when the shift pattern has an entry for the date, keyed by weekday or
\* by explicit date, that carries a time_slot, getEffectiveRosterStart shows
\* the slot's start_time, and calculateRosterBasedLateness and
\* calculateLateDuration measure lateness from it, not from the roster's own
\* start_time; the stored roster stays as it was.
C13_SlotStartSupersedes ==
  (pc = "edgeDone" /\ RosterInForce)
  => \A e \in ApplicableEntries :
       e.time_slot.start_time # NoTime
       => /\ out.fn = "getEffectiveRosterStart"
               => out.start_time = e.time_slot.start_time
          /\ out.fn \in {"calculateRosterBasedLateness", "calculateLateDuration"}
               => out.lateMinutes = WholeMinutesAfter(e.time_slot.start_time)

\* C14: when the shift pattern entry that applies to the check-in's date,
\* keyed by weekday or by explicit date, marks the day as off, every lateness
\* computation returns 0 late minutes and does not report the employee late.
C14_OffDayNeverLate ==
  (pc = "edgeDone" /\ RosterInForce
     /\ out.fn \in {"calculateLateness", "calculateLateDuration",
                    "calculateRosterBasedLateness",
                    "AttendanceDataRecreationService.calculateLateDuration"})
  => \A e \in ApplicableEntries :
       e.shift = "off"
       => /\ out.lateMinutes = 0
          /\ out.fn \in {"calculateLateness", "calculateLateDuration"} => ~out.isLate

\* C15: for a roster whose start_time is missing or does not read HH:MM, or
\* whose shift_pattern is not an array, calculateLateness,
\* calculateLateDuration, calculateRosterBasedLateness and
\* AttendanceDataRecreationService.calculateLateDuration return exactly 0 late
\* minutes, never NaN, and isLate false (no pattern entry with a start time
\* of its own applying to the date).
C15_MalformedRosterGivesZero ==
  (pc = "edgeDone"
     /\ out.fn \in {"calculateLateness", "calculateLateDuration",
                    "calculateRosterBasedLateness",
                    "AttendanceDataRecreationService.calculateLateDuration"}
     /\ EdgeRoster.is_active
     /\ attendance.roster_id = EdgeRoster.id
     /\ ApplicableEntries = {}
     /\ \/ EdgeRoster.start_time # <<8, 0>>
        \/ EdgeRoster.shift_pattern = MalformedPattern)
  => /\ out.lateMinutes = 0
     /\ out.fn \in {"calculateLateness", "calculateLateDuration"} => ~out.isLate

\* C16: in every result of calculateLateness and of calculateLateDuration, for
\* check-ins at second granularity, isLate is true exactly when lateMinutes
\* is greater than 0.
C16_LateIffPositive ==
  (pc = "lateDone" /\ out.fn \in {"calculateLateness", "calculateLateDuration"})
  => (out.isLate <=> out.lateMinutes > 0)

\* C17: when the next event timestamp is added to a record (not earlier than
\* the timestamps it holds, not later than now), the worked minutes computed
\* for it are not less than those computed before.
C17_WorkedMinutesMonotonic ==
  pc = "workAdded" =>
    /\ out.fn = "calculateWorkingTime" => out.netWorkingMinutes >= out.before
    /\ out.fn = "fetchPresentEmployees" => out.working_duration >= out.before

\* C18: for the same check-in instant and the same roster start time,
\* calculateLateness, calculateLateDuration,
\* AttendanceDataRecreationService.calculateLateDuration and the
\* recalculations of RosterStartEditor.handleSave and
\* EditRosterStartDialog.handleSave yield the same minutes late.
C18_OneLatenessFunction ==
  (pc = "lateDone"
     /\ out.fn \in {"calculateLateness", "calculateLateDuration",
                    "AttendanceDataRecreationService.calculateLateDuration",
                    "RosterStartEditor.handleSave",
                    "EditRosterStartDialog.handleSave"})
  => out.lateMinutes = calculateLateness(attendance, TheRoster, tzOffset).lateMinutes

\* C19: every minutes_late written to an attendance record is a whole number,
\* the minute difference between check-in and roster start truncated toward
\* zero (and 0 for an early check-in): 1 minute 40 seconds late stores 1.
C19_StoredLateMinutesTruncated ==
  (pc = "rosters" /\ out.fn \in {"handleSave", "dialogHandleSave"}
     /\ out.result = "ok")
  => \E st \in EditedStartTimes :
       attendance.minutes_late
         = Max(0, Trunc(attendance.first_check_in_time
                          - SetHours(attendance.first_check_in_time, st[1], st[2],
                                     tzOffset)))

\* the calendar date of the record's check-in
CheckInDate == LocalDate(attendance.first_check_in_time, tzOffset)

\* C20: lateness is measured from the roster start on the calendar date of
\* the check-in itself: when the record's date, passed as the date argument
\* of calculateRosterBasedLateness or isEmployeeLate, is another date, the
\* result is the one obtained with the check-in's own date, as it is for
\* calculateLateDuration.
C20_StartOnCheckInDate ==
  pc = "edgeDone" =>
    /\ out.fn = "calculateRosterBasedLateness"
         => out.lateMinutes
              = calculateRosterBasedLateness(rosters, attendance.employee_id,
                  attendance.first_check_in_time, CheckInDate, tzOffset)
    /\ (out.fn = "isEmployeeLate" /\ out.date # NULL)
         => out.isLate
              = isEmployeeLate(attendance.first_check_in_time, TheRoster.start_time,
                               out.gracePeriod, CheckInDate, tzOffset)
    /\ (out.fn = "calculateLateDuration" /\ TheRoster # NoRoster
          /\ EdgeRoster.start_time = <<8, 0>>)
         => out.lateMinutes = WholeMinutesAfter(EdgeRoster.start_time)

\* ------------------------------------------------ the editors' two-step writes
\* the roster the edited record refers to
RecordRoster == getRosterById(rosters, attendance.roster_id)

\* the late minutes of a check-in against a start time, as any of the writers
\* of minutes_late rounds them: truncated, to the nearest minute, or not at all
LatenessAgainst(checkInTime, st, tz) ==
  {Max(0, Trunc(checkInTime - SetHours(checkInTime, st[1], st[2], tz))),
   editorLateMinutes(checkInTime, st, tz),
   dialogLateMinutes(checkInTime, st, tz)}

\* a handleSave of one of the editors has run to its end, to its toast of
\* success or to its catch block
HandleSaveFinished ==
  /\ pc = "rosters"
  /\ NoCallInProgress
  /\ out.fn \in {"handleSave", "dialogHandleSave"}
  /\ out.result \in {"ok", "error"}

\* C21: when handleSave of EditRosterStartDialog or RosterStartEditor has
\* finished, with every write done or with one of them failed, the edited
\* record's minutes_late is the lateness of its first check-in against the
\* start_time now stored on its roster (whatever the rounding).
C21_RosterAndLatenessTogether ==
  (HandleSaveFinished /\ RecordRoster # NoRoster)
  => attendance.minutes_late
       \in LatenessAgainst(attendance.first_check_in_time,
                           RecordRoster.start_time, tzOffset)

\* ------------------------------------------------- bulk recomputation, reports
MaxRecords == 3

BulkEmployees == {"e1", "e2", "e3"}

\* no department: a null department_id, or no departmentId argument
NoDepartment == ""

\* employees (department_id): e3 belongs to no department
DepartmentOf(employeeId) ==
  IF employeeId = "e1" THEN "d1"
  ELSE IF employeeId = "e2" THEN "d2" ELSE NoDepartment

\* the (employee, date) pairs an attendance row may be about, in a fixed order
BulkKeys ==
  <<<<"e1", Today>>, <<"e2", Today>>, <<"e3", Today>>,
    <<"e1", Today + 1>>, <<"e2", Today + 1>>, <<"e3", Today + 1>>>>

\* the values of minutes_late a stored row may carry: none, on time, late
StoredLateness == {NULL, 0, Minutes(20)}

\* an attendance row of the table: checked in at 08:00 plus its lateness (a row
\* whose derived fields were never computed checked in at 08:20) and out four
\* hours later; only e1 has a roster
BulkRecord(id, key, late) ==
  LET in == At(key[2], 8, IF late = 0 THEN 0 ELSE 20, 0, 0)
  IN [id |-> id, employee_id |-> key[1], date |-> key[2],
      roster_id |-> IF key[1] = "e1" THEN 1 ELSE NULL,
      first_check_in_time |-> in, first_check_out_time |-> in + 4 * 3600,
      second_check_in_time |-> NULL, second_check_out_time |-> NULL,
      status |-> "FIRST_CHECK_OUT", minutes_late |-> late,
      working_duration_minutes |-> IF late = NULL THEN NULL ELSE Minutes(240),
      break_duration_minutes |-> IF late = NULL THEN NULL ELSE 0,
      attendance_stats |-> NULL]

\* strictly increasing sequences of n indices into BulkKeys
RECURSIVE Ascending(_, _)
Ascending(n, from) ==
  IF n = 0 THEN {<<>>}
  ELSE UNION {{<<k>> \o rest : rest \in Ascending(n - 1, k + 1)} :
              k \in from..Len(BulkKeys)}

\* the attendance table: at most MaxRecords rows, one per (employee, date)
InitBulk ==
  /\ pc = "bulk"
  /\ tzOffset = 0
  /\ rosters = {NewRoster(1, "e1", Today - 1, Today + 1, <<8, 0>>)}
  /\ \E n \in 0..MaxRecords : \E keys \in Ascending(n, 1) :
       \E late \in [1..n -> StoredLateness] :
         attendance = [id \in 1..n |-> BulkRecord(id, BulkKeys[keys[id]], late[id])]
  /\ now = At(Today + 1, 18, 0, 0, tzOffset)
  /\ calls = [c \in {"recreateAttendanceData"} |-> Idle]
  /\ out = NoOut

\* the rows a query .gte('date', startDate).lte('date', endDate) returns, by id
RECURSIVE RowsFrom(_, _, _, _)
RowsFrom(table, id, startDate, endDate) ==
  IF id \notin DOMAIN table THEN <<>>
  ELSE (IF startDate <= table[id].date /\ table[id].date <= endDate
        THEN <<table[id]>> ELSE <<>>)
       \o RowsFrom(table, id + 1, startDate, endDate)

FetchRecords(table, startDate, endDate) == RowsFrom(table, 1, startDate, endDate)

\* recreateAttendanceData, up to its query: the records of the period are
\* fetched and counted, or the query fails and the error is rethrown
RecreateFetch(startDate, endDate) ==
  /\ pc = "bulk"
  /\ \/ LET records == FetchRecords(attendance, startDate, endDate)
            result == [totalRecords |-> Len(records), optimizedRecords |-> 0,
                       errors |-> <<>>]
        IN IF records = <<>>
           THEN /\ pc' = "bulkDone"
                /\ out' = [fn |-> "recreateAttendanceData", state |-> "returned",
                          result |-> result, records |-> records]
                /\ UNCHANGED calls
           ELSE /\ pc' = "bulkLoop"
                /\ calls' = [calls EXCEPT !["recreateAttendanceData"] =
                               [pc |-> "loop", records |-> records, i |-> 1,
                                result |-> result]]
                /\ out' = [fn |-> "recreateAttendanceData", state |-> "fetched"]
     \/ /\ pc' = "bulkDone"
        /\ out' = [fn |-> "recreateAttendanceData", state |-> "thrown"]
        /\ UNCHANGED calls
  /\ UNCHANGED <<tzOffset, rosters, attendance, now>>

\* a loop that gives up at the first failing record
RecreateRecord_stopsAtFailure ==
  /\ pc = "bulkLoop"
  /\ LET c == calls["recreateAttendanceData"]
         record == c.records[c.i]
         last == c.i = Len(c.records)
     IN \/ LET result == [c.result EXCEPT !.optimizedRecords = @ + 1]
           IN /\ attendance' = [attendance EXCEPT ![record.id] =
                                  RecreatedRow(rosters, record, tzOffset)]
              /\ IF last
                 THEN /\ pc' = "bulkDone"
                      /\ Finish("recreateAttendanceData")
                      /\ out' = [fn |-> "recreateAttendanceData", state |-> "returned",
                                result |-> result, records |-> c.records]
                 ELSE /\ pc' = pc
                      /\ calls' = [calls EXCEPT
                                     !["recreateAttendanceData"].i = c.i + 1,
                                     !["recreateAttendanceData"].result = result]
                      /\ out' = [fn |-> "recreateAttendanceData", state |-> "updated"]
        \/ \E failure \in {"Failed to update record", "Error processing record"} :
             LET result == [c.result EXCEPT
                              !.errors = Append(@, [id |-> record.id,
                                                    message |-> failure])]
             IN /\ UNCHANGED attendance
                /\ pc' = "bulkDone"
                /\ Finish("recreateAttendanceData")
                /\ out' = [fn |-> "recreateAttendanceData", state |-> "returned",
                          result |-> result, records |-> c.records]
  /\ UNCHANGED <<tzOffset, rosters, now>>

\* recreateAttendanceData: one turn of the loop. The record's figures are
\* recomputed and written, or the update returns an error, or something in
\* the turn throws; in each case the loop goes on with the next record and
\* after the last one the result is returned
RecreateRecord ==
  /\ pc = "bulkLoop"
  /\ LET c == calls["recreateAttendanceData"]
         record == c.records[c.i]
         last == c.i = Len(c.records)
     IN \E outcome \in {"updated", "Failed to update record", "Error processing record"} :
          LET result == IF outcome = "updated"
                        THEN [c.result EXCEPT !.optimizedRecords = @ + 1]
                        ELSE [c.result EXCEPT
                                !.errors = Append(@, [id |-> record.id,
                                                      message |-> outcome])]
          IN /\ attendance' = IF outcome = "updated"
                              THEN [attendance EXCEPT ![record.id] =
                                      RecreatedRow(rosters, record, tzOffset)]
                              ELSE attendance
             /\ IF last
                THEN /\ pc' = "bulkDone"
                     /\ Finish("recreateAttendanceData")
                     /\ out' = [fn |-> "recreateAttendanceData", state |-> "returned",
                               result |-> result, records |-> c.records]
                ELSE /\ pc' = pc
                     /\ calls' = [calls EXCEPT
                                    !["recreateAttendanceData"].i = c.i + 1,
                                    !["recreateAttendanceData"].result = result]
                     /\ out' = [fn |-> "recreateAttendanceData", state |-> outcome]
  /\ UNCHANGED <<tzOffset, rosters, now>>

\* the sum of a sequence of numbers, as reduce((sum, x) => sum + x, 0)
RECURSIVE SumSeq(_)
SumSeq(s) == IF s = <<>> THEN 0 ELSE Head(s) + SumSeq(Tail(s))

\* a quotient num / den as generateAttendanceInsights computes it, kept as
\* its two operands
Ratio(num, den) == [num |-> num, den |-> den]

\* the embedded employees (...) of a fetched row: with a departmentId filter
\* on the embedded table the rows of other departments come back with
\* employees null
EmbeddedEmployee(record, departmentId) ==
  IF departmentId # NoDepartment /\ DepartmentOf(record.employee_id) # departmentId
  THEN [id |-> "undefined", department_id |-> NoDepartment]
  ELSE [id |-> record.employee_id,
        department_id |-> DepartmentOf(record.employee_id)]

\* record.employees?.department_id || 'unassigned'
DeptIdOf(record, departmentId) ==
  LET employees == EmbeddedEmployee(record, departmentId)
  IN IF employees.department_id = NoDepartment THEN "unassigned"
     ELSE employees.department_id

\* !r.minutes_late || r.minutes_late === 0
IsOnTime(r) == r.minutes_late = NULL \/ r.minutes_late = 0

\* r.minutes_late && r.minutes_late > 0
IsLate(r) == r.minutes_late # NULL /\ r.minutes_late > 0

\* the fetched records of one department
RecordsOfDepartment(records, deptId, departmentId) ==
  LET Belongs(r) == DeptIdOf(r, departmentId) = deptId
  IN SelectSeq(records, Belongs)

\* the fetched records of one date
RecordsOfDate(records, date) ==
  LET Belongs(r) == r.date = date
  IN SelectSeq(records, Belongs)

\* counts in which a department's records are counted once per employee
departmentCounts_perEmployee(records, departmentId) ==
  LET totalEmployees ==
        Cardinality({EmbeddedEmployee(records[i], departmentId).id :
                     i \in 1..Len(records)})
  IN [totalEmployees |-> totalEmployees,
      totalRecords |-> totalEmployees,
      onTimeRecords |-> Len(SelectSeq(records, IsOnTime)),
      totalLateMinutes |->
        SumSeq([i \in 1..Len(records) |-> OrZero(records[i].minutes_late)]),
      totalWorkingMinutes |->
        SumSeq([i \in 1..Len(records) |->
                  OrZero(records[i].working_duration_minutes)])]

\* generateAttendanceInsights: the counts and sums taken over the records of
\* one department
departmentCounts(records, departmentId) ==
  [totalEmployees |->
     Cardinality({EmbeddedEmployee(records[i], departmentId).id :
                  i \in 1..Len(records)}),
   totalRecords |-> Len(records),
   onTimeRecords |-> Len(SelectSeq(records, IsOnTime)),
   totalLateMinutes |->
     SumSeq([i \in 1..Len(records) |-> OrZero(records[i].minutes_late)]),
   totalWorkingMinutes |->
     SumSeq([i \in 1..Len(records) |-> OrZero(records[i].working_duration_minutes)])]

\* generateAttendanceInsights: the statistics reported for one department
departmentStat(counts) ==
  [totalEmployees |-> counts.totalEmployees,
   averageAttendance |-> Ratio(counts.totalRecords * 100, counts.totalEmployees),
   averageLateMinutes |-> Ratio(counts.totalLateMinutes, counts.totalRecords),
   complianceRate |-> Ratio(counts.onTimeRecords * 100, counts.totalRecords)]

\* generateAttendanceInsights: the trend entry of one date; hours are held
\* in 3600ths, as minutes are in sixtieths
dateTrend(date, records) ==
  [date |-> date,
   onTimeCount |-> Len(SelectSeq(records, IsOnTime)),
   lateCount |-> Len(SelectSeq(records, IsLate)),
   averageWorkingHours |->
     Ratio(SumSeq([i \in 1..Len(records) |->
                     OrZero(records[i].working_duration_minutes)]),
           Len(records))]

\* trend entries for every date of the period, with or without records
RECURSIVE trendsFrom_everyDate(_, _, _)
trendsFrom_everyDate(records, date, endDate) ==
  IF date > endDate THEN <<>>
  ELSE <<dateTrend(date, RecordsOfDate(records, date))>>
       \o trendsFrom_everyDate(records, date + 1, endDate)

\* the trend entries of the dates from date on that have records, ascending
RECURSIVE trendsFrom(_, _, _)
trendsFrom(records, date, endDate) ==
  IF date > endDate THEN <<>>
  ELSE (IF RecordsOfDate(records, date) = <<>> THEN <<>>
        ELSE <<dateTrend(date, RecordsOfDate(records, date))>>)
       \o trendsFrom(records, date + 1, endDate)

\* the department keys the grouping of the records creates
DeptIds(records, departmentId) ==
  {DeptIdOf(records[i], departmentId) : i \in 1..Len(records)}

\* generateAttendanceInsights over the fetched records of startDate..endDate
generateAttendanceInsights(records, startDate, endDate, departmentId) ==
  IF records = <<>>
  THEN [departmentStats |-> [deptId \in {} |-> NULL], trends |-> <<>>]
  ELSE [departmentStats |->
          [deptId \in DeptIds(records, departmentId) |->
             departmentStat(departmentCounts(
               RecordsOfDepartment(records, deptId, departmentId), departmentId))],
        trends |-> trendsFrom(records, startDate, endDate)]

\* the departmentId arguments a caller may pass
DepartmentIds == {NoDepartment, "d1"}

\* generateAttendanceInsights(startDate, endDate, departmentId): the query,
\* then the statistics, or the query's error rethrown
GenerateAttendanceInsights(startDate, endDate, departmentId) ==
  /\ pc = "bulk"
  /\ \/ LET records == FetchRecords(attendance, startDate, endDate)
        IN out' = [fn |-> "generateAttendanceInsights", state |-> "returned",
                   records |-> records, departmentId |-> departmentId,
                   counts |-> [deptId \in DeptIds(records, departmentId) |->
                                departmentCounts(
                                  RecordsOfDepartment(records, deptId, departmentId),
                                  departmentId)],
                   insights |-> generateAttendanceInsights(records, startDate,
                                                           endDate, departmentId)]
     \/ out' = [fn |-> "generateAttendanceInsights", state |-> "thrown"]
  /\ pc' = "bulkDone"
  /\ UNCHANGED <<tzOffset, rosters, attendance, now, calls>>

\* the ids of the fetched records
IdsOf(records) == {records[i].id : i \in 1..Len(records)}

\* the fetched records of one employee
RecordsOfEmployee(records, employeeId) ==
  LET Belongs(r) == r.employee_id = employeeId
  IN SelectSeq(records, Belongs)

\* optimizeAttendanceReports: the statistics of one employee's records
employeeStats(records) ==
  LET totalDays == Len(records)
      onTimeDays == Len(SelectSeq(records, IsOnTime))
      lateDays == totalDays - onTimeDays
      totalWorkingMinutes ==
        SumSeq([i \in 1..Len(records) |->
                  OrZero(records[i].working_duration_minutes)])
  IN [total_days |-> totalDays, on_time_days |-> onTimeDays,
      late_days |-> lateDays,
      average_working_minutes |-> Ratio(totalWorkingMinutes, totalDays),
      compliance_rate |-> Ratio(onTimeDays * 100, totalDays)]

\* optimizeAttendanceReports(startDate, endDate): nothing is done for an empty
\* period; otherwise each record is given its employee's statistics, with
\* the updates that fail only logged; a failing query is rethrown
OptimizeAttendanceReports(startDate, endDate) ==
  /\ pc = "bulk"
  /\ \/ LET records == FetchRecords(attendance, startDate, endDate)
        IN \E failed \in SUBSET IdsOf(records) :
             /\ attendance' =
                  [id \in DOMAIN attendance |->
                     IF id \in IdsOf(records) \ failed
                     THEN [attendance[id] EXCEPT !.attendance_stats =
                             employeeStats(RecordsOfEmployee(records,
                                             attendance[id].employee_id))]
                     ELSE attendance[id]]
             /\ out' = [fn |-> "optimizeAttendanceReports", state |-> "returned",
                        records |-> records, before |-> attendance,
                        written |-> IdsOf(records) \ failed]
     \/ /\ UNCHANGED attendance
        /\ out' = [fn |-> "optimizeAttendanceReports", state |-> "thrown"]
  /\ pc' = "bulkDone"
  /\ UNCHANGED <<tzOffset, rosters, now, calls>>

\* record.minutes_late === 0
IsExactlyOnTime(r) == r.minutes_late # NULL /\ r.minutes_late = 0

\* record.employee?.department?.name || 'Unassigned'
DeptNameOf(record) ==
  IF DepartmentOf(record.employee_id) = NoDepartment THEN "Unassigned"
  ELSE DepartmentOf(record.employee_id)

\* the report rows of one department
RowsOfDepartment(data, deptName) ==
  LET Belongs(r) == DeptNameOf(r) = deptName
  IN SelectSeq(data, Belongs)

\* generateSummaryText: the group of one department, built up row by row
summaryGroup(data) ==
  [total |-> Len(data),
   onTime |-> Len(SelectSeq(data, IsExactlyOnTime)),
   late |-> Len(SelectSeq(data, IsLate)),
   hours |-> SumSeq([i \in 1..Len(data) |->
                       OrZero(data[i].working_duration_minutes)])]

\* generateSummaryText(data): the figures the summary prints
generateSummaryText(data) ==
  LET onTimeCount == Len(SelectSeq(data, IsExactlyOnTime))
      lateCount == Len(SelectSeq(data, IsLate))
  IN [totalEmployees |-> Cardinality({data[i].employee_id : i \in 1..Len(data)}),
      onTimeCount |-> onTimeCount,
      lateCount |-> lateCount,
      totalHours |-> SumSeq([i \in 1..Len(data) |->
                               OrZero(data[i].working_duration_minutes)]),
      onTimeRate |-> Ratio(onTimeCount * 100, Len(data)),
      lateRate |-> Ratio(lateCount * 100, Len(data)),
      departmentGroups |->
        [deptName \in {DeptNameOf(data[i]) : i \in 1..Len(data)} |->
           summaryGroup(RowsOfDepartment(data, deptName))]]

\* PresentEmployeeReport: the summary of the report rows of a period
GenerateSummaryText(startDate, endDate) ==
  /\ pc = "bulk"
  /\ LET reportData == FetchRecords(attendance, startDate, endDate)
     IN /\ reportData # <<>>
        /\ out' = [fn |-> "generateSummaryText", state |-> "returned",
                   records |-> reportData,
                   summary |-> generateSummaryText(reportData)]
  /\ pc' = "bulkDone"
  /\ UNCHANGED <<tzOffset, rosters, attendance, now, calls>>

\* the periods a caller may ask for
BulkPeriods == {<<Today, Today>>, <<Today, Today + 1>>}

NextBulk ==
  \/ \E p \in BulkPeriods : RecreateFetch(p[1], p[2])
  \/ RecreateRecord
  \/ \E p \in BulkPeriods, dep \in DepartmentIds :
       GenerateAttendanceInsights(p[1], p[2], dep)
  \/ \E p \in BulkPeriods : GenerateSummaryText(p[1], p[2])
  \/ \E p \in BulkPeriods : OptimizeAttendanceReports(p[1], p[2])

SpecBulk == InitBulk /\ [][NextBulk]_vars

\* the ids of the records a result reports as failed
FailedIds(errors) == {errors[k].id : k \in 1..Len(errors)}

\* the fetched records before position i have each been handled once: a failed
\* one is listed once and its row is as fetched, any other carries the
\* recomputed figures; the records from i on are untouched
HandledUpTo(records, i, result) ==
  /\ Cardinality(FailedIds(result.errors)) = Len(result.errors)
  /\ FailedIds(result.errors) \subseteq {records[j].id : j \in 1..(i - 1)}
  /\ result.optimizedRecords + Len(result.errors) = i - 1
  /\ \A j \in 1..Len(records) :
       attendance[records[j].id]
         = IF j < i /\ records[j].id \notin FailedIds(result.errors)
           THEN RecreatedRow(rosters, records[j], tzOffset)
           ELSE records[j]

\* C22: recreateAttendanceData handles every fetched record exactly once and
\* commits each update on its own: after a failure the earlier updates are
\* still in place and the later records are still processed, and the result
\* returned has totalRecords = optimizedRecords + errors.length.
C22_PerRecordCommit ==
  /\ pc = "bulkLoop"
       => LET c == calls["recreateAttendanceData"]
          IN /\ c.i \in 1..Len(c.records)
             /\ c.result.totalRecords = Len(c.records)
             /\ HandledUpTo(c.records, c.i, c.result)
  /\ (pc = "bulkDone" /\ out.fn = "recreateAttendanceData" /\ out.state = "returned")
       => /\ out.result.totalRecords = Len(out.records)
          /\ out.result.totalRecords
               = out.result.optimizedRecords + Len(out.result.errors)
          /\ HandledUpTo(out.records, Len(out.records) + 1, out.result)

\* a run over three records whose second record failed and whose first and
\* third were updated
C22_Witness ==
  /\ pc = "bulkDone"
  /\ out.fn = "recreateAttendanceData"
  /\ out.state = "returned"
  /\ out.result.totalRecords = 3
  /\ out.result.optimizedRecords = 2
  /\ FailedIds(out.result.errors) = {out.records[2].id}
  /\ attendance[out.records[1].id] # out.records[1]
  /\ attendance[out.records[3].id] # out.records[3]

\* the records of a sequence whose ids are in ids, in their order
Restrict(records, ids) ==
  LET Chosen(r) == r.id \in ids
  IN SelectSeq(records, Chosen)

\* the counts and sums of generateAttendanceInsights that add up
AdditiveCounts(counts) ==
  [totalRecords |-> counts.totalRecords,
   onTimeRecords |-> counts.onTimeRecords,
   totalLateMinutes |-> counts.totalLateMinutes,
   totalWorkingMinutes |-> counts.totalWorkingMinutes]

\* merge of two partial aggregates: element-wise sums
MergeCounts(a, b) ==
  [totalRecords |-> a.totalRecords + b.totalRecords,
   onTimeRecords |-> a.onTimeRecords + b.onTimeRecords,
   totalLateMinutes |-> a.totalLateMinutes + b.totalLateMinutes,
   totalWorkingMinutes |-> a.totalWorkingMinutes + b.totalWorkingMinutes]

MergeGroups(a, b) ==
  [total |-> a.total + b.total, onTime |-> a.onTime + b.onTime,
   late |-> a.late + b.late, hours |-> a.hours + b.hours]

C24_EmptyInputHandled ==
  (pc = "bulkDone" /\ out.state = "returned")
  => /\ out.fn = "generateAttendanceInsights"
          => /\ out.records = <<>>
                  => /\ DOMAIN out.insights.departmentStats = {}
                     /\ out.insights.trends = <<>>
             /\ \A deptId \in DOMAIN out.insights.departmentStats :
                  LET stat == out.insights.departmentStats[deptId]
                  IN /\ out.counts[deptId].totalRecords >= 1
                     /\ stat.averageAttendance.den >= 1
                     /\ stat.averageLateMinutes.den >= 1
                     /\ stat.complianceRate.den >= 1
             /\ \A k \in 1..Len(out.insights.trends) :
                  LET trend == out.insights.trends[k]
                  IN /\ RecordsOfDate(out.records, trend.date) # <<>>
                     /\ trend.averageWorkingHours.den >= 1
     /\ (out.fn = "optimizeAttendanceReports" /\ out.records = <<>>)
          => /\ out.written = {}
             /\ attendance = out.before

\* an aggregation over a period that has no records while the table has some
C24_Witness ==
  /\ pc = "bulkDone"
  /\ out.state = "returned"
  /\ out.fn \in {"generateAttendanceInsights", "optimizeAttendanceReports"}
  /\ out.records = <<>>
  /\ DOMAIN attendance # {}

\* the record has a session that is still open: a check-in, not later than
\* now, whose check-out is missing, the timestamps before it being in order
HasOpenSession(att) ==
  /\ OpenInOrder(att)
  /\ (att.first_check_out_time = NULL) = (att.second_check_in_time = NULL)
  /\ \A t \in {att.first_check_in_time, att.first_check_out_time,
               att.second_check_in_time} : t <= now

\* the minutes of the sessions of such a record, the open one up to clock
SessionMinutesUpTo(att, clock) ==
  IF att.first_check_out_time = NULL
  THEN clock - att.first_check_in_time
  ELSE (att.first_check_out_time - att.first_check_in_time)
         + (clock - att.second_check_in_time)

\* C25: the working-time computation depends only on the four timestamps and
\* the instant supplied as now: evaluated again for the same record and the
\* same supplied instant, the wall clock having moved on, it returns the same
\* break and worked minutes, and a session still open is measured up to the
\* supplied instant.
C25_DeterministicGivenNow ==
  /\ pc = "workAgain" => [f \in DOMAIN out.first |-> out[f]] = out.first
  /\ (pc = "workDone" /\ HasOpenSession(attendance))
       => /\ out.fn = "calculateWorkingTime"
               => out.totalMinutes = SessionMinutesUpTo(attendance, now)
          /\ (out.fn = "fetchPresentEmployees" /\ out.found = 1
                /\ OrZero(attendance.working_duration_minutes) = 0)
               => out.working_duration
                    = Trunc(SessionMinutesUpTo(attendance, now))

\* C26: isEmployeeLate(checkIn, rosterStart, grace) is true exactly when the
\* check-in is strictly more than grace minutes after the roster start of
\* the check-in's own date: false up to start + grace (a check-in exactly at
\* the start with grace 0 included), true from a minute past start + grace.
C26_LateIffAfterGrace ==
  (pc \in {"lateDone", "edgeDone"} /\ out.fn = "isEmployeeLate" /\ out.date = NULL
     /\ Len(TheRoster.start_time) = 2 /\ TheRoster.start_time[1] # NaN)
  => out.isLate
       = (attendance.first_check_in_time
            - SetHours(attendance.first_check_in_time, TheRoster.start_time[1],
                       TheRoster.start_time[2], tzOffset)
          > Minutes(out.gracePeriod))

\* C27: calculateLateness returns {isLate: false, lateMinutes: 0, lateDisplay:
\* '0h 0m'} when first_check_in_time is missing or the check-in is not after
\* the roster start, and otherwise lateMinutes is the whole minutes between
\* roster start and check-in, lateHours is floor(lateMinutes / 60) and
\* lateDisplay is 'Hh Mm' with H = lateHours, M = lateMinutes mod 60, so that
\* 60 * H + M = lateMinutes and 0 <= M < 60.
C27_LatenessResultShape ==
  (pc \in {"lateDone", "edgeDone"} /\ out.fn = "calculateLateness"
     /\ Len(TheRoster.start_time) = 2 /\ TheRoster.start_time[1] # NaN)
  => LET checkIn == attendance.first_check_in_time
         start == SetHours(checkIn, TheRoster.start_time[1],
                           TheRoster.start_time[2], tzOffset)
         minutes == out.lateMinutes \div SecondsPerMinute
     IN IF checkIn = NULL \/ checkIn <= start
        THEN /\ ~out.isLate
             /\ out.lateMinutes = 0
             /\ out.lateDisplay = <<0, 0>>
        ELSE /\ out.lateMinutes = MathFloor(checkIn - start)
             /\ out.lateHours = minutes \div 60
             /\ out.lateDisplay = <<out.lateHours, minutes % 60>>
             /\ 60 * out.lateDisplay[1] + out.lateDisplay[2] = minutes
             /\ 0 <= out.lateDisplay[2] /\ out.lateDisplay[2] < 60

\* ------------------------------------- a roster shared by several attendance rows
\* the first check-ins of the two rows: 08:20:40 of Today and 08:40 of Today + 1
EditCheckIns == <<At(Today, 8, 20, 40, 0), At(Today + 1, 8, 40, 0, 0)>>

\* Two attendance rows of one employee, of Today and of Today + 1, each
\* referring to roster 1 or to none; roster 1 covers both dates and starts at
\* 08:00, and the rows' minutes_late are those of their check-ins against it.
InitEdit ==
  /\ pc = "edit"
  /\ tzOffset = 0
  /\ \E active \in BOOLEAN :
       rosters = {[NewRoster(1, "e1", Today - 1, Today + 1, <<8, 0>>)
                     EXCEPT !.is_active = active]}
  /\ \E rid \in [1..2 -> {NULL, 1}] :
       attendance =
         [id \in 1..2 |->
            [NewAttendance("e1", Today + id - 1)
               EXCEPT !.id = id,
                      !.first_check_in_time = EditCheckIns[id],
                      !.roster_id = rid[id],
                      !.status = "FIRST_SESSION_ACTIVE",
                      !.minutes_late =
                        IF rid[id] = NULL THEN 0
                        ELSE Max(0, Trunc(EditCheckIns[id]
                                            - SetHours(EditCheckIns[id], 8, 0, 0)))]]
  /\ now = At(Today + 1, 18, 0, 0, tzOffset)
  /\ calls = NoCalls
  /\ out = NoOut

\* EditRosterStartDialog.handleSave for the row id, as a whole: the roster
\* update fails, or it is done and the attendance update fails, or both are done
DialogHandleSave(id, rosterStart) ==
  /\ pc = "edit"
  /\ LET record == attendance[id]
     IN \E outcome \in {"rosterError", "attendanceError", "ok"} :
          /\ rosters' = IF outcome = "rosterError" THEN rosters
                        ELSE updateStartTime(rosters, record.roster_id, rosterStart)
          /\ attendance' =
               IF outcome = "ok"
               THEN [attendance EXCEPT ![id].minutes_late =
                       dialogLateMinutes(record.first_check_in_time, rosterStart,
                                         tzOffset)]
               ELSE attendance
          /\ out' = [fn |-> "dialogHandleSave", record |-> id,
                     rosterId |-> record.roster_id,
                     result |-> IF outcome = "ok" THEN "ok" ELSE "error"]
  /\ UNCHANGED <<pc, tzOffset, now, calls>>

\* RosterStartEditor.handleSave for the row id, as a whole: the lookup of the
\* employee's active rosters on the row's date, the update of the roster found
\* or the insertion of one, the row's roster_id, the row's minutes_late; any
\* of the requests may fail and end the handler
EditorHandleSave(id, rosterStart) ==
  /\ pc = "edit"
  /\ LET record == attendance[id]
         existingRosters == ActiveRostersOn(rosters, record.employee_id, record.date)
         inserted == [NewRoster(NextId(rosters), record.employee_id,
                                record.date, record.date, rosterStart)
                        EXCEPT !.end_time = <<17, 30>>]
     IN \E outcome \in {"fetchError", "rosterError", "rosterIdError", "lateError", "ok"},
           existingRoster \in (IF existingRosters = {} THEN {NoRoster}
                               ELSE existingRosters) :
          LET rosterId == IF existingRoster = NoRoster THEN inserted.id
                          ELSE existingRoster.id
              lateMinutes == editorLateMinutes(record.first_check_in_time,
                                               rosterStart, tzOffset)
              rosterWritten == outcome \notin {"fetchError", "rosterError"}
              rosterRequest == IF existingRoster = NoRoster THEN TRUE
                               ELSE existingRoster.start_time # rosterStart
          IN /\ (existingRoster = NoRoster /\ rosterWritten)
                  => Cardinality(rosters) < MaxRosters
             /\ outcome = "rosterError" => rosterRequest
             /\ outcome = "rosterIdError" => record.roster_id # rosterId
             /\ rosters' = IF ~rosterWritten THEN rosters
                           ELSE IF existingRoster = NoRoster
                           THEN rosters \cup {inserted}
                           ELSE updateStartTime(rosters, rosterId, rosterStart)
             /\ attendance' =
                  IF outcome = "lateError"
                  THEN [attendance EXCEPT ![id].roster_id = rosterId]
                  ELSE IF outcome = "ok"
                  THEN [attendance EXCEPT ![id].roster_id = rosterId,
                                          ![id].minutes_late = lateMinutes]
                  ELSE attendance
             /\ out' = [fn |-> "handleSave", record |-> id, rosterId |-> rosterId,
                        result |-> IF outcome = "ok" THEN "ok" ELSE "error"]
  /\ UNCHANGED <<pc, tzOffset, now, calls>>

NextEdit ==
  \/ \E id \in 1..2, st \in EditedStartTimes : DialogHandleSave(id, st)
  \/ \E id \in 1..2, st \in EditedStartTimes : EditorHandleSave(id, st)

SpecEdit == InitEdit /\ [][NextEdit]_vars

\* C28: once handleSave of EditRosterStartDialog or RosterStartEditor has
\* changed a roster's start_time, every attendance record that refers to the
\* roster, the edited record and the others alike, has the minutes_late of its
\* first check-in against the roster's new start_time (whatever the rounding).
C28_AllRecordsOfRosterRecomputed ==
  (pc = "edit" /\ out.fn \in {"handleSave", "dialogHandleSave"}
     /\ out.result = "ok" /\ getRosterById(rosters, out.rosterId) # NoRoster)
  => \A id \in DOMAIN attendance :
       attendance[id].roster_id = out.rosterId
         => attendance[id].minutes_late
              \in LatenessAgainst(attendance[id].first_check_in_time,
                                  getRosterById(rosters, out.rosterId).start_time,
                                  tzOffset)

\* C29: in every aggregate (the trends and department statistics of
\* generateAttendanceInsights, the per-employee statistics of
\* optimizeAttendanceReports, the summaries of PresentEmployeeReport) each
\* record counts as exactly one of on time or late: onTimeCount + lateCount
\* = total in every partition, records without minutes_late included.
C29_OnTimePlusLateIsTotal ==
  (pc = "bulkDone" /\ out.state = "returned")
  => /\ out.fn = "generateAttendanceInsights"
          => /\ \A k \in 1..Len(out.insights.trends) :
                  LET trend == out.insights.trends[k]
                  IN trend.onTimeCount + trend.lateCount
                       = Len(RecordsOfDate(out.records, trend.date))
             /\ \A deptId \in DOMAIN out.counts :
                  LET records == RecordsOfDepartment(out.records, deptId,
                                                     out.departmentId)
                  IN out.counts[deptId].onTimeRecords + Len(SelectSeq(records, IsLate))
                       = out.counts[deptId].totalRecords
     /\ out.fn = "optimizeAttendanceReports"
          => \A id \in out.written :
               LET stats == attendance[id].attendance_stats
               IN /\ stats.on_time_days + stats.late_days = stats.total_days
                  /\ stats.total_days
                       = Len(RecordsOfEmployee(out.records, attendance[id].employee_id))
                  /\ stats.late_days
                       = Len(SelectSeq(RecordsOfEmployee(out.records,
                                         attendance[id].employee_id), IsLate))
     /\ out.fn = "generateSummaryText"
          => /\ out.summary.onTimeCount + out.summary.lateCount = Len(out.records)
             /\ \A deptName \in DOMAIN out.summary.departmentGroups :
                  LET group == out.summary.departmentGroups[deptName]
                  IN group.onTime + group.late = group.total

\* ------------------------------------------------------- shift pattern ranges
\* the longest range asked for, in days
MaxPatternDays == 13

\* the zones the code may run in: UTC, UTC+05:30, and a zone whose clocks go
\* from UTC-05:00 to UTC-04:00 at 02:00 local time of Today + 1
Zones ==
  {FixedZone(tz) : tz \in TZOffsets}
    \cup {[before |-> 0 - 5 * 3600, after |-> 0 - 4 * 3600,
           change |-> (Today + 1) * SecondsPerDay + 7 * 3600]}

\* A range of dates around Today, possibly empty, and the zone of the clock;
\* the zone is kept in calls.
InitPattern ==
  /\ pc = "pattern"
  /\ tzOffset = 0
  /\ rosters = {}
  /\ \E startDate \in (Today - 1)..(Today + 1) :
       \E endDate \in (startDate - 1)..(startDate + MaxPatternDays - 1) :
         attendance = [startDate |-> startDate, endDate |-> endDate]
  /\ now = At(Today, 18, 0, 0, 0)
  /\ calls \in {[zone |-> z] : z \in Zones}
  /\ out = NoOut

\* optimizeShiftPattern(startDate, endDate, employeeId, departmentId)
OptimizeShiftPattern ==
  /\ pc = "pattern"
  /\ out' = [fn |-> "optimizeShiftPattern", startDate |-> attendance.startDate,
             endDate |-> attendance.endDate,
             pattern |-> optimizeShiftPattern(attendance.startDate,
                                              attendance.endDate, calls.zone)]
  /\ pc' = "patternDone"
  /\ UNCHANGED <<tzOffset, rosters, attendance, now, calls>>

NextPattern == OptimizeShiftPattern

SpecPattern == InitPattern /\ [][NextPattern]_vars

IsWorking(entry) == entry.shift # "off"

\* C30: optimizeShiftPattern returns one entry per calendar date from
\* startDate to endDate, in ascending order (none when startDate > endDate);
\* every run of maxConsecutiveDays working entries is followed at once by an
\* 'off' entry, so that no more than 5 working entries are consecutive, and
\* after the 'off' entry the count starts again.
C30_OneEntryPerDateMaxFiveWorking ==
  pc = "patternDone" =>
    LET pattern == out.pattern
        days == Max(0, out.endDate - out.startDate + 1)
    IN /\ Len(pattern) = days
       /\ \A i \in 1..Len(pattern) : pattern[i].date = out.startDate + i - 1
       /\ \A i \in 1..Len(pattern) :
            (i + maxConsecutiveDays <= Len(pattern)
               /\ \A k \in i..(i + maxConsecutiveDays - 1) : IsWorking(pattern[k]))
            => ~IsWorking(pattern[i + maxConsecutiveDays])
       /\ \A i \in 1..Len(pattern) :
            ~IsWorking(pattern[i])
              => \A k \in (i + 1)..(i + maxConsecutiveDays) :
                   k <= Len(pattern) => IsWorking(pattern[k])

====
